---- MODULE Spec2Model ----
(***************************************************************************)
(* rsquid: the query page and the QueryExecutor behind it.                 *)
(*                                                                         *)
(* Text (String / &str) is a sequence of one-character strings, so that    *)
(* split, trim, to_lowercase and starts_with are computed character by     *)
(* character.  Cells and headers of a result grid are TLA+ strings.        *)
(* The database behind the pool is the environment: each statement that    *)
(* is awaited is answered by one Reply action, which either fails or       *)
(* returns what sqlx would hand back (raw rows, or an affected-row count). *)
(***************************************************************************)
EXTENDS Integers, Sequences, FiniteSets, TLC

VARIABLES
    query,              \* QueryPage.query
    cursor_position,    \* QueryPage.cursor_position
    results,            \* QueryPage.results
    headers,            \* QueryPage.headers
    error,              \* QueryPage.error (NoError = None)
    executor,           \* QueryPage.executor: "None" or the DbPool variant it holds
    focus,              \* QueryPage.focus
    table_state,        \* QueryPage.table_state.selected(): <<>> = None, <<k>> = Some(k)
    horizontal_scroll,  \* QueryPage.horizontal_scroll
    pc,                 \* "idle"; "call": execute is about to be called on arg_query;
                        \* "cell": a cell is about to be converted;
                        \* "connecting": QueryExecutor::new awaits the pool;
                        \* "closing": disconnect awaits close;
                        \* "await": execute is suspended on a statement
    caller,             \* who awaits execute: "page" (execute_query), "tables"
                        \* (load_tables) or "direct"
    arg_query,          \* execute: its argument query
    queries,            \* execute: the split statement list
    idx,                \* execute: 1-based position of the statement being awaited
    all_headers,        \* execute: local all_headers
    all_rows,           \* execute: local all_rows
    result,             \* the value execute returned last
    sent,               \* the statements handed to the pool during this call, in order
    replied,            \* what the backend answered to each of them, in order
    committed,          \* the Write statements the backend has applied during this call
    raw_value,          \* *_value_to_string: the row's value at index and its column
    cell_text,          \* *_value_to_string: the String it returned
    tried,              \* *_value_to_string: the try_get decodes it made, in order
    state,              \* App.state
    error_message,      \* App.error_message (NoError = None)
    connection,         \* QueryPage.connection: "None" or its db_type
    tables,             \* QueryPage.tables
    open_call,          \* the last call of QueryExecutor::new
    live,               \* the number of pools that were opened and are not closed
    attempts,           \* the number of calls of QueryPage::connect so far
    opened,             \* the number of pools opened so far
    resubmission,       \* the submission last made from the query page followed
                        \* one that failed on the same session
    max_results,        \* QueryPage.max_results (0 = unlimited)
    explorer_state,     \* QueryPage.explorer_state.selected(): <<k>> = Some(k)
    activation,         \* the last call of toggle_table_expansion: the selection
                        \* and the tables it found
    history,            \* the queries stored in history.json, oldest first
    history_available,  \* HistoryManager::new() returns Ok (the config directory
                        \* exists or can be created)
    list_state,         \* HistoryPage.list_state.selected(): <<k>> = Some(k)
    readonly,           \* what is_readonly_query returned: <<>> = not called yet
    items               \* render_explorer: the items of the list it drew last

vars == <<query, cursor_position, results, headers, error, executor, focus,
          table_state, horizontal_scroll, pc, caller, arg_query, queries, idx,
          all_headers, all_rows, result, sent, replied, committed,
          raw_value, cell_text, tried, state, error_message, connection, tables,
          open_call, live, attempts, opened, resubmission,
          max_results, explorer_state, activation,
          history, history_available, list_state, readonly, items>>

pageVars == <<query, cursor_position, results, headers, error, executor, focus,
              table_state, horizontal_scroll>>

cellVars == <<raw_value, cell_text, tried>>

navVars == <<max_results, explorer_state, activation>>

sideVars == <<history_available, list_state, readonly, items>>

appVars == <<state, error_message, connection, tables, open_call, live,
             attempts, opened, resubmission>>

sessionVars == <<state, error_message, connection, tables, open_call, live,
                 attempts, opened>>

----------------------------------------------------------------------------
(* Bounds of the model *)

MaxStmts == 3
MaxCols == 2
MaxRows == 2
MaxAffected == 1
MaxTextLen == 4

----------------------------------------------------------------------------
(* Characters and text *)

UpperChars == <<"A","B","C","D","E","F","G","H","I","J","K","L","M",
                "N","O","P","Q","R","S","T","U","V","W","X","Y","Z">>

LowerChars == <<"a","b","c","d","e","f","g","h","i","j","k","l","m",
                "n","o","p","q","r","s","t","u","v","w","x","y","z">>

IsWhitespace(c) == c \in {" ", "\t", "\n"}

ToLowerChar(c) ==
    IF \E k \in 1..26 : UpperChars[k] = c
    THEN LowerChars[CHOOSE k \in 1..26 : UpperChars[k] = c]
    ELSE c

ToUpperChar(c) ==
    IF \E k \in 1..26 : LowerChars[k] = c
    THEN UpperChars[CHOOSE k \in 1..26 : LowerChars[k] = c]
    ELSE c

ToLowercase(s) == [k \in 1..Len(s) |-> ToLowerChar(s[k])]

StartsWith(s, p) ==
    /\ Len(p) <= Len(s)
    /\ \A k \in 1..Len(p) : s[k] = p[k]

RECURSIVE TrimStart(_)
TrimStart(s) ==
    IF s = <<>> THEN <<>>
    ELSE IF IsWhitespace(s[1]) THEN TrimStart(Tail(s))
    ELSE s

RECURSIVE TrimEnd(_)
TrimEnd(s) ==
    IF s = <<>> THEN <<>>
    ELSE IF IsWhitespace(s[Len(s)]) THEN TrimEnd(SubSeq(s, 1, Len(s) - 1))
    ELSE s

Trim(s) == TrimEnd(TrimStart(s))

RECURSIVE SplitSemi(_)
SplitSemi(s) ==
    IF \A k \in 1..Len(s) : s[k] # ";"
    THEN <<s>>
    ELSE LET p == CHOOSE k \in 1..Len(s) :
                      s[k] = ";" /\ \A m \in 1..(k - 1) : s[m] # ";"
         IN  <<SubSeq(s, 1, p - 1)>> \o SplitSemi(SubSeq(s, p + 1, Len(s)))

MapNoTrim(pieces) == pieces

MapTrim(pieces) == [k \in 1..Len(pieces) |-> Trim(pieces[k])]

NonEmpty(q) == q # <<>>

FilterNonEmpty(pieces) == SelectSeq(pieces, NonEmpty)

Split(text) == FilterNonEmpty(MapTrim(SplitSemi(text)))

----------------------------------------------------------------------------
(* Classification of a statement *)

kwSelect == <<"s","e","l","e","c","t">>
kwShow == <<"s","h","o","w">>
kwDescribe == <<"d","e","s","c","r","i","b","e">>
kwExplain == <<"e","x","p","l","a","i","n">>
kwWith == <<"w","i","t","h">>
kwValues == <<"v","a","l","u","e","s">>

QueryTypeCaseSensitive(q) ==
    \/ StartsWith(q, kwSelect)
    \/ StartsWith(q, kwShow)
    \/ StartsWith(q, kwDescribe)
    \/ StartsWith(q, kwExplain)
    \/ StartsWith(q, kwWith)
    \/ StartsWith(q, kwValues)

QueryType(q) ==
    LET trimmed == ToLowercase(q)
    IN  \/ StartsWith(trimmed, kwSelect)
        \/ StartsWith(trimmed, kwShow)
        \/ StartsWith(trimmed, kwDescribe)
        \/ StartsWith(trimmed, kwExplain)
        \/ StartsWith(trimmed, kwWith)
        \/ StartsWith(trimmed, kwValues)

MySqlActualIsQuery(q, is_query) ==
    \/ is_query
    \/ StartsWith(ToLowercase(q), kwDescribe)
    \/ StartsWith(ToLowercase(q), kwExplain)

Backends == {"Postgres", "MySql", "Sqlite"}

\* The sqlx call a statement is run through: fetch_all (rows) or execute (count)
DispatchMode(pool, q) ==
    LET is_query == QueryType(q)
    IN  IF pool = "MySql"
        THEN IF MySqlActualIsQuery(q, is_query) THEN "fetch_all" ELSE "execute"
        ELSE IF is_query THEN "fetch_all" ELSE "execute"

----------------------------------------------------------------------------
(* What sqlx hands back.  A raw cell carries the column (name, type name), *)
(* whether the value is SQL NULL, and the outcome of each decode the       *)
(* converters may attempt: the typed try_get of the type table, try_get as *)
(* String, try_get as bytes (shown lossily as text).                       *)

Decoded(text) == [ok |-> TRUE, v |-> text]

DecodeFailed == [ok |-> FALSE, v |-> ""]

PgErrTypes == {"BOOL", "INT2", "INT4", "INT8", "FLOAT4", "FLOAT8", "NUMERIC",
               "TIMESTAMP", "TIMESTAMPTZ", "DATE", "UUID", "JSON", "JSONB"}

PgTextTypes == {"TEXT", "VARCHAR", "CHAR", "NAME"}

pg_value_to_string(cell) ==
    IF cell.null THEN "NULL"
    ELSE IF cell.ty \in PgErrTypes
         THEN IF cell.typed.ok THEN cell.typed.v ELSE "err"
    ELSE IF cell.ty \in PgTextTypes
         THEN IF cell.str.ok THEN cell.str.v ELSE ""
    ELSE IF cell.str.ok THEN cell.str.v
    ELSE "<" \o cell.ty \o ">"

MySqlErrTypes == {"BOOLEAN", "TINYINT", "SMALLINT", "INT", "BIGINT",
                  "TINYINT UNSIGNED", "SMALLINT UNSIGNED", "INT UNSIGNED",
                  "BIGINT UNSIGNED", "FLOAT", "DOUBLE", "DECIMAL",
                  "DATETIME", "TIMESTAMP", "DATE", "JSON"}

MySqlStringTypes == {"VARCHAR", "CHAR", "TEXT", "VAR_STRING", "BLOB", "BINARY"}

mysql_value_to_string_no_bytes(cell) ==
    IF cell.null THEN "NULL"
    ELSE IF cell.ty \in MySqlErrTypes
         THEN IF cell.typed.ok THEN cell.typed.v ELSE "err"
    ELSE IF cell.ty \in MySqlStringTypes
         THEN IF cell.str.ok THEN cell.str.v
              ELSE IF cell.bytes.ok THEN cell.bytes.v
              ELSE "<" \o cell.ty \o ">"
    ELSE IF cell.str.ok THEN cell.str.v
    ELSE "<" \o cell.ty \o ">"

mysql_value_to_string(cell) ==
    IF cell.null THEN "NULL"
    ELSE IF cell.ty \in MySqlErrTypes
         THEN IF cell.typed.ok THEN cell.typed.v ELSE "err"
    ELSE IF cell.ty \in MySqlStringTypes
         THEN IF cell.str.ok THEN cell.str.v
              ELSE IF cell.bytes.ok THEN cell.bytes.v
              ELSE "<" \o cell.ty \o ">"
    ELSE IF cell.str.ok THEN cell.str.v
    ELSE IF cell.bytes.ok THEN cell.bytes.v
    ELSE "<" \o cell.ty \o ">"

SqliteErrTypes == {"BOOLEAN", "INTEGER", "REAL"}

sqlite_value_to_string(cell) ==
    IF cell.null THEN "NULL"
    ELSE IF cell.ty \in SqliteErrTypes
         THEN IF cell.typed.ok THEN cell.typed.v ELSE "err"
    ELSE IF cell.ty = "TEXT"
         THEN IF cell.str.ok THEN cell.str.v ELSE ""
    ELSE IF cell.ty = "DATETIME"
         THEN IF cell.typed.ok THEN cell.typed.v
              ELSE IF cell.str.ok THEN cell.str.v ELSE "err"
    ELSE IF cell.str.ok THEN cell.str.v
    ELSE "<" \o cell.ty \o ">"

\* the conversion without its first test: the decode of a NULL value fails
value_to_string_null_unchecked(pool, cell) ==
    LET c == IF cell.null
             THEN [cell EXCEPT !.null = FALSE, !.typed = DecodeFailed,
                               !.str = DecodeFailed, !.bytes = DecodeFailed]
             ELSE cell
    IN  IF pool = "Postgres" THEN pg_value_to_string(c)
        ELSE IF pool = "MySql" THEN mysql_value_to_string(c)
        ELSE sqlite_value_to_string(c)

value_to_string(pool, cell) ==
    IF pool = "Postgres" THEN pg_value_to_string(cell)
    ELSE IF pool = "MySql" THEN mysql_value_to_string(cell)
    ELSE sqlite_value_to_string(cell)

\* the try_get decodes each conversion makes on the cell, in order: "typed" is
\* the decode to the Rust type the match arm names, "String" and "Vec<u8>"
\* the decodes to text and to bytes
pg_decodes(cell) ==
    IF cell.null THEN <<>>
    ELSE IF cell.ty \in PgErrTypes THEN <<"typed">>
    ELSE <<"String">>

mysql_decodes(cell) ==
    IF cell.null THEN <<>>
    ELSE IF cell.ty \in MySqlErrTypes THEN <<"typed">>
    ELSE IF cell.str.ok THEN <<"String">>
    ELSE <<"String", "Vec<u8>">>

sqlite_decodes(cell) ==
    IF cell.null THEN <<>>
    ELSE IF cell.ty \in SqliteErrTypes THEN <<"typed">>
    ELSE IF cell.ty = "DATETIME"
         THEN IF cell.typed.ok THEN <<"typed">> ELSE <<"typed", "String">>
    ELSE <<"String">>

decodes(pool, cell) ==
    IF pool = "Postgres" THEN pg_decodes(cell)
    ELSE IF pool = "MySql" THEN mysql_decodes(cell)
    ELSE sqlite_decodes(cell)

\* no cell is being converted
NoCell == [name |-> "", ty |-> "", null |-> TRUE, typed |-> DecodeFailed,
           str |-> DecodeFailed, bytes |-> DecodeFailed, payload |-> <<>>]

Grid(h, r) == [headers |-> h, rows |-> r]

\* toggle_table_expansion has not been called
NoActivation == [selected |-> <<>>, tables |-> <<>>]

\* QueryExecutor::new has not been called
NoOpenCall == [db_type |-> "", dialed |-> 0, elapsed |-> 0, outcome |-> "None",
               msg |-> ""]

\* a db_type for which QueryExecutor::new builds the pool variant
DbTypeOf(pool) ==
    IF pool = "Postgres" THEN "postgres"
    ELSE IF pool = "MySql" THEN "mysql"
    ELSE IF pool = "Sqlite" THEN "sqlite"
    ELSE "None"

\* execute_postgres / execute_mysql / execute_sqlite after fetch_all returned raw
ReadResultReversed(pool, raw) ==
    IF raw = <<>> THEN Grid(<<>>, <<>>)
    ELSE Grid([j \in 1..Len(raw[1]) |-> raw[1][j].name],
              [r \in 1..Len(raw) |->
                  [j \in 1..Len(raw[Len(raw) + 1 - r]) |->
                      value_to_string(pool, raw[Len(raw) + 1 - r][j])]])

ReadResult(pool, raw) ==
    IF raw = <<>> THEN Grid(<<>>, <<>>)
    ELSE Grid([j \in 1..Len(raw[1]) |-> raw[1][j].name],
              [r \in 1..Len(raw) |->
                  [j \in 1..Len(raw[r]) |-> value_to_string(pool, raw[r][j])]])

\* the same functions after execute returned rows_affected = n
WriteResult(n) ==
    Grid(<<"Result">>, << <<ToString(n) \o " row(s) affected">> >>)

----------------------------------------------------------------------------
(* Aggregation of the per-statement results inside execute *)

MaxOf(a, b) == IF a >= b THEN a ELSE b

\* i is the loop's 0-based index of the statement whose result is being added
NeedSeparator(i, rows_so_far) == i > 0 /\ rows_so_far # <<>>

SeparatorRow(stmt_headers) == [k \in 1..MaxOf(Len(stmt_headers), 1) |-> "---"]

AdoptHeadersLast(adopted, stmt_headers) ==
    IF stmt_headers # <<>> THEN stmt_headers ELSE adopted

AdoptHeaders(adopted, stmt_headers) ==
    IF adopted = <<>> THEN stmt_headers ELSE adopted

AggregateNoSeparator(i, adopted, rows_so_far, r) ==
    Grid(AdoptHeaders(adopted, r.headers), rows_so_far \o r.rows)

Aggregate(i, adopted, rows_so_far, r) ==
    LET withSep == IF NeedSeparator(i, rows_so_far)
                   THEN Append(rows_so_far, SeparatorRow(r.headers))
                   ELSE rows_so_far
    IN  Grid(AdoptHeaders(adopted, r.headers), withSep \o r.rows)

----------------------------------------------------------------------------
(* The environment: texts that are submitted, and what the backend answers *)

kwInsert == <<"i","n","s","e","r","t">>

StmtPieces == {kwSelect, kwInsert}

\* texts of at most n statements, each written " <statement>;"
RECURSIVE TextsOf(_)
TextsOf(n) ==
    IF n = 0 THEN {<<>>}
    ELSE LET prev == TextsOf(n - 1)
         IN  prev \cup {t \o <<" ">> \o p \o <<";">> : t \in prev, p \in StmtPieces}

BlankTexts == {<<" ">>, <<";">>, <<" ", ";">>}

Texts == TextsOf(MaxStmts) \cup BlankTexts

\* cell (r, j) of a result set of nc >= 1 columns; one cell of it is SQL NULL
RawCell(nc, r, j) ==
    LET col == ToString(j) \o "of" \o ToString(nc)
        txt == "v" \o ToString(r) \o "." \o col
    IN  [name |-> "c" \o col, ty |-> "TEXT",
         null |-> (r = 2 /\ j = 1),
         typed |-> Decoded(txt), str |-> Decoded(txt), bytes |-> Decoded(txt)]

RawRows(nc, nr) == [r \in 1..nr |-> [j \in 1..nc |-> RawCell(nc, r, j)]]

\* the row sets fetch_all may return
ReadReplies ==
    {<<>>} \cup {RawRows(nc, nr) : nc \in 1..MaxCols, nr \in 1..MaxRows}

\* the row sets load_tables' statement may return: one column, the name
TableReplies == {<<>>} \cup {RawRows(1, nr) : nr \in 1..MaxRows}

\* the row sets the column introspection may return: the one column that
\* was selected on postgres, a name and a second column elsewhere
ColumnReplies(pool) ==
    IF pool = "Postgres" THEN TableReplies
    ELSE {<<>>} \cup {RawRows(2, nr) : nr \in 1..MaxRows}

ErrMsgs == {"syntax error"}

RowsReply(raw) == [kind |-> "rows", raw |-> raw, n |-> 0, msg |-> ""]

CountReply(n) == [kind |-> "count", raw |-> <<>>, n |-> n, msg |-> ""]

ErrorReply(m) == [kind |-> "error", raw |-> <<>>, n |-> 0, msg |-> m]

----------------------------------------------------------------------------
(* Values execute returns, and what execute_query does with them *)

NoError == "None"

NoResult == [tag |-> "None", headers |-> <<>>, rows |-> <<>>, msg |-> ""]

OkResult(g) == [tag |-> "Ok", headers |-> g.headers, rows |-> g.rows, msg |-> ""]

ErrResult(m) == [tag |-> "Err", headers |-> <<>>, rows |-> <<>>, msg |-> m]

Sending(pool, q) == [stmt |-> q, mode |-> DispatchMode(pool, q)]

\* HistoryManager::save_query on the stored list h (a list that cannot be
\* read counts as empty; the write is taken to succeed)
save_query(h, query_string) ==
    IF h # <<>> /\ h[Len(h)] = query_string THEN h
    ELSE Append(h, query_string)

\* the history after execute_query's Ok arm has run for the buffer q
SavedFrom(q) == IF history_available THEN save_query(history, q) ELSE history

PageReceiveDropsSession(r) ==
    /\ UNCHANGED <<query, cursor_position, focus, horizontal_scroll>>
    /\ IF r.tag = "Ok"
       THEN /\ headers' = r.headers
            /\ results' = r.rows
            /\ table_state' = IF r.rows # <<>> THEN <<0>> ELSE table_state
            /\ history' = SavedFrom(query)
            /\ UNCHANGED <<error, executor>>
       ELSE /\ error' = "Query error: " \o r.msg
            /\ executor' = "None"
            /\ UNCHANGED <<headers, results, table_state, history>>

\* execute_query's match on what execute returned (the page's fields were
\* cleared before the call)
PageReceive(r) ==
    /\ UNCHANGED <<query, cursor_position, executor, focus, horizontal_scroll>>
    /\ IF r.tag = "Ok"
       THEN /\ headers' = r.headers
            /\ results' = r.rows
            /\ table_state' = IF r.rows # <<>> THEN <<0>> ELSE table_state
            /\ history' = SavedFrom(query)
            /\ UNCHANGED error
       ELSE /\ error' = "Query error: " \o r.msg
            /\ UNCHANGED <<headers, results, table_state, history>>

\* TableInfo.fields is <<>> for None and <<f>> for Some(f)
FieldsLen(t) == IF t.fields = <<>> THEN 0 ELSE Len(t.fields[1])

\* the walk of toggle_table_expansion from table i on, actual_index being the
\* flat row of table i: the 1-based index of the table it stops at, 0 for
\* found_index = None
RECURSIVE FoundIndexFrom(_, _, _, _)
FoundIndexFrom(ts, i, actual_index, selected) ==
    IF i > Len(ts) THEN 0
    ELSE IF actual_index = selected THEN i
    ELSE FoundIndexFrom(ts, i + 1,
                        actual_index + 1
                          + (IF ts[i].expanded THEN FieldsLen(ts[i]) ELSE 0),
                        selected)

found_index == FoundIndexFrom(tables, 1, 0, explorer_state[1])

\* the position of the column's name in a row of the introspection result
field_index(db_type) == IF db_type = "sqlite" THEN 1 ELSE 0

\* toggle_table_expansion's match on what execute returned for the table it
\* found (nothing ran since the walk, which finds the same table again),
\* and the expansion that follows it
ColumnsReceive(r) ==
    LET fi == field_index(connection)
    IN  /\ tables' =
              [tables EXCEPT ![found_index] =
                  [@ EXCEPT !.fields =
                                IF r.tag = "Ok"
                                THEN << [k \in 1..Len(r.rows) |->
                                           IF fi < Len(r.rows[k])
                                           THEN r.rows[k][fi + 1] ELSE ""] >>
                                ELSE @,
                            !.expanded = TRUE]]
        /\ UNCHANGED <<state, error_message, connection, open_call, live,
                       attempts, opened, resubmission>>

\* load_tables' match on what execute returned; connect then returns Ok and
\* App::handle_input shows the query page
LoadedTables(rows) ==
    [k \in 1..Len(rows) |->
        [name |-> rows[k][1], fields |-> <<>>, expanded |-> FALSE]]

TablesReceiveSurfacesError(r) ==
    /\ tables' = IF r.tag = "Ok" THEN LoadedTables(r.rows) ELSE <<>>
    /\ state' = IF r.tag = "Ok" THEN "QueryPage" ELSE state
    /\ error_message' = IF r.tag = "Ok" THEN NoError
                        ELSE "Connection failed: " \o r.msg
    /\ UNCHANGED <<connection, open_call, live, attempts, opened, resubmission>>

TablesReceive(r) ==
    /\ tables' = IF r.tag = "Ok" THEN LoadedTables(r.rows) ELSE <<>>
    /\ state' = "QueryPage"
    /\ error_message' = NoError
    /\ UNCHANGED <<connection, open_call, live, attempts, opened, resubmission>>

\* execute returns r to whoever awaits it
Return(r) ==
    /\ result' = r
    /\ pc' = "idle"
    /\ all_headers' = <<>>
    /\ all_rows' = <<>>
    /\ IF caller = "page"
       THEN /\ PageReceive(r)
            /\ UNCHANGED appVars
       ELSE IF caller = "tables"
       THEN /\ TablesReceive(r)
            /\ UNCHANGED <<pageVars, history>>
       ELSE IF caller = "columns"
       THEN /\ ColumnsReceive(r)
            /\ UNCHANGED <<pageVars, history>>
       ELSE UNCHANGED <<pageVars, appVars, history>>

ExecuteEmptyIsError(pool, t, who) ==
    LET qs == Split(t)
    IN  /\ arg_query' = t
        /\ caller' = who
        /\ queries' = qs
        /\ replied' = <<>>
        /\ committed' = <<>>
        /\ all_headers' = <<>>
        /\ all_rows' = <<>>
        /\ IF qs = <<>>
           THEN /\ result' = ErrResult("empty query")
                /\ sent' = <<>>
                /\ idx' = 0
                /\ pc' = "idle"
           ELSE /\ result' = NoResult
                /\ sent' = <<Sending(pool, qs[1])>>
                /\ idx' = 1
                /\ pc' = "await"

\* execute, from its entry to its first suspension (or to its return when the
\* text holds no statement); the caller's own fields are left to the caller
Execute(pool, t, who) ==
    LET qs == Split(t)
    IN  /\ arg_query' = t
        /\ caller' = who
        /\ queries' = qs
        /\ replied' = <<>>
        /\ committed' = <<>>
        /\ all_headers' = <<>>
        /\ all_rows' = <<>>
        /\ IF qs = <<>>
           THEN /\ result' = OkResult(Grid(<<>>, <<>>))
                /\ sent' = <<>>
                /\ idx' = 0
                /\ pc' = "idle"
           ELSE /\ result' = NoResult
                /\ sent' = <<Sending(pool, qs[1])>>
                /\ idx' = 1
                /\ pc' = "await"

----------------------------------------------------------------------------
(* Operations *)

execVars == <<pc, caller, arg_query, queries, idx, all_headers, all_rows,
              result, sent, replied, committed>>

\* QueryPage::set_query
SetQuery(t) ==
    /\ UNCHANGED <<cellVars, navVars, sideVars, history>>
    /\ UNCHANGED appVars
    /\ pc = "idle"
    /\ query' = t
    /\ cursor_position' = Len(t)
    /\ focus' = "Query"
    /\ UNCHANGED <<results, headers, error, executor, table_state, horizontal_scroll>>
    /\ UNCHANGED execVars

ExecuteQueryNoTrim ==
    /\ UNCHANGED <<cellVars, navVars, sideVars>>
    /\ UNCHANGED appVars
    /\ pc = "idle"
    /\ results' = <<>>
    /\ headers' = <<>>
    /\ table_state' = <<>>
    /\ horizontal_scroll' = 0
    /\ UNCHANGED <<query, cursor_position, executor, focus>>
    /\ IF query = <<>>
       THEN /\ error' = "Query is empty"
            /\ UNCHANGED <<execVars, history>>
       ELSE IF executor = "None"
       THEN /\ error' = "Not connected to database"
            /\ UNCHANGED <<execVars, history>>
       ELSE /\ error' = NoError
            /\ Execute(executor, query, "page")
            /\ history' = IF Split(query) = <<>> THEN SavedFrom(query) ELSE history

\* QueryPage::execute_query, up to the point where it awaits execute
PageExecuteQuery ==
    /\ UNCHANGED <<cellVars, navVars, sideVars>>
    /\ pc = "idle"
    /\ results' = <<>>
    /\ headers' = <<>>
    /\ table_state' = <<>>
    /\ horizontal_scroll' = 0
    /\ UNCHANGED <<query, cursor_position, executor, focus>>
    /\ IF Trim(query) = <<>>
       THEN /\ error' = "Query is empty"
            /\ UNCHANGED <<execVars, history>>
       ELSE IF executor = "None"
       THEN /\ error' = "Not connected to database"
            /\ UNCHANGED <<execVars, history>>
       ELSE /\ error' = NoError
            /\ Execute(executor, query, "page")
            /\ history' = IF Split(query) = <<>> THEN SavedFrom(query) ELSE history

\* execute_query on a page whose application is not modelled
ExecuteQuery == PageExecuteQuery /\ UNCHANGED appVars

\* the texts execute is called with directly
TextChars == {";", " ", "\n", "a"}

RECURSIVE SeqsUpTo(_, _)
SeqsUpTo(S, n) ==
    IF n = 0 THEN {<<>>}
    ELSE LET prev == SeqsUpTo(S, n - 1)
         IN  prev \cup {Append(t, c) : t \in prev, c \in S}

SplitInputs == SeqsUpTo(TextChars, MaxTextLen)

Stems == {kwSelect, kwShow, kwDescribe, kwExplain, kwWith, kwValues, kwInsert,
          <<"u","p","d","a","t","e">>, <<"s","e","l">>, <<"d","e","s","c">>}

Uppercase(s) == [k \in 1..Len(s) |-> ToUpperChar(s[k])]

Capitalize(s) == [k \in 1..Len(s) |-> IF k = 1 THEN ToUpperChar(s[k]) ELSE s[k]]

Suffixes == {<<>>, <<" ","x">>, <<"x">>, <<"*">>, <<"\t","x">>}

ClassifyInputs ==
    {w \o x : w \in UNION {{st, Uppercase(st), Capitalize(st)} : st \in Stems},
              x \in Suffixes}

DirectInputs == SplitInputs \cup ClassifyInputs

\* QueryExecutor::execute called on the text arg_query (as load_tables and
\* toggle_table_expansion call it), up to its first suspension
DirectExecute ==
    /\ UNCHANGED <<cellVars, navVars, sideVars, history>>
    /\ UNCHANGED appVars
    /\ pc = "call"
    /\ executor # "None"
    /\ Execute(executor, arg_query, "direct")
    /\ UNCHANGED pageVars

\* the loop body of execute after statement idx was answered with r
Continue(r) ==
    LET g == Aggregate(idx - 1, all_headers, all_rows, r)
    IN  /\ UNCHANGED <<caller, arg_query, queries>>
        /\ IF idx = Len(queries)
           THEN /\ Return(OkResult(g))
                /\ UNCHANGED <<idx, sent>>
           ELSE /\ idx' = idx + 1
                /\ all_headers' = g.headers
                /\ all_rows' = g.rows
                /\ sent' = Append(sent, Sending(executor, queries[idx + 1]))
                /\ UNCHANGED <<pc, result>>
                /\ UNCHANGED <<pageVars, history>>
                /\ UNCHANGED appVars

\* fetch_all(pool) succeeds
ReplyRows ==
    /\ UNCHANGED <<cellVars, navVars, sideVars>>
    /\ pc = "await"
    /\ sent[idx].mode = "fetch_all"
    /\ \E raw \in (IF caller = "tables" THEN TableReplies
                   ELSE IF caller = "columns" THEN ColumnReplies(executor)
                   ELSE ReadReplies) :
          /\ replied' = Append(replied, RowsReply(raw))
          /\ Continue(ReadResult(executor, raw))
    /\ UNCHANGED committed

\* execute(pool) succeeds: the backend has applied the statement
ReplyCount ==
    /\ UNCHANGED <<cellVars, navVars, sideVars>>
    /\ pc = "await"
    /\ sent[idx].mode = "execute"
    /\ \E n \in 0..MaxAffected :
          /\ replied' = Append(replied, CountReply(n))
          /\ Continue(WriteResult(n))
    /\ committed' = Append(committed, sent[idx].stmt)

ReplyErrorPartial ==
    /\ UNCHANGED <<cellVars, navVars, sideVars>>
    /\ pc = "await"
    /\ \E m \in ErrMsgs :
          /\ replied' = Append(replied, ErrorReply(m))
          /\ Return(OkResult(Grid(all_headers, all_rows)))
    /\ UNCHANGED <<caller, arg_query, queries, idx, sent, committed>>

ReplyErrorRollback ==
    /\ UNCHANGED <<cellVars, navVars, sideVars>>
    /\ pc = "await"
    /\ \E m \in ErrMsgs :
          /\ replied' = Append(replied, ErrorReply(m))
          /\ Return(ErrResult(m))
    /\ committed' = <<>>
    /\ UNCHANGED <<caller, arg_query, queries, idx, sent>>

ReplyErrorContinue ==
    /\ UNCHANGED <<cellVars, navVars, sideVars>>
    /\ pc = "await"
    /\ \E m \in ErrMsgs :
          /\ replied' = Append(replied, ErrorReply(m))
          /\ Continue(Grid(<<>>, <<>>))
    /\ UNCHANGED committed

\* fetch_all(pool) or execute(pool) fails: the ? operator returns the error
ReplyError ==
    /\ UNCHANGED <<cellVars, navVars, sideVars>>
    /\ pc = "await"
    /\ \E m \in ErrMsgs :
          /\ replied' = Append(replied, ErrorReply(m))
          /\ Return(ErrResult(m))
    /\ UNCHANGED <<caller, arg_query, queries, idx, sent, committed>>

----------------------------------------------------------------------------
(* Specifications *)

\* the page after QueryPage::new or a successful connect, and set_query
Init ==
    /\ query \in Texts
    /\ cursor_position = Len(query)
    /\ results = <<>>
    /\ headers = <<>>
    /\ error = NoError
    /\ executor \in {"None"} \cup Backends
    /\ focus = "Query"
    /\ table_state = <<>>
    /\ horizontal_scroll = 0
    /\ pc = "idle"
    /\ caller = "page"
    /\ arg_query = <<>>
    /\ queries = <<>>
    /\ idx = 0
    /\ all_headers = <<>>
    /\ all_rows = <<>>
    /\ result = NoResult
    /\ sent = <<>>
    /\ replied = <<>>
    /\ committed = <<>>
    /\ raw_value = NoCell
    /\ cell_text = ""
    /\ tried = <<>>
    /\ state = "QueryPage"
    /\ error_message = NoError
    /\ connection = DbTypeOf(executor)
    /\ tables = <<>>
    /\ open_call = NoOpenCall
    /\ live = (IF executor = "None" THEN 0 ELSE 1)
    /\ attempts = 0
    /\ opened = live
    /\ resubmission = FALSE
    /\ max_results = 0
    /\ explorer_state = <<0>>
    /\ activation = NoActivation
    /\ history = <<>>
    /\ history_available = FALSE
    /\ list_state = <<0>>
    /\ readonly = <<>>
    /\ items = <<>>

Next ==
    \/ ExecuteQuery
    \/ ReplyRows
    \/ ReplyCount
    \/ ReplyError

Spec == Init /\ [][Next]_vars

\* the executor of a connected page, about to be called on one text
InitExecutor ==
    /\ query = <<>>
    /\ cursor_position = 0
    /\ results = <<>>
    /\ headers = <<>>
    /\ error = NoError
    /\ executor \in Backends
    /\ focus = "Query"
    /\ table_state = <<>>
    /\ horizontal_scroll = 0
    /\ pc = "call"
    /\ caller = "direct"
    /\ arg_query \in DirectInputs
    /\ queries = <<>>
    /\ idx = 0
    /\ all_headers = <<>>
    /\ all_rows = <<>>
    /\ result = NoResult
    /\ sent = <<>>
    /\ replied = <<>>
    /\ committed = <<>>
    /\ raw_value = NoCell
    /\ cell_text = ""
    /\ tried = <<>>
    /\ state = "QueryPage"
    /\ error_message = NoError
    /\ connection = DbTypeOf(executor)
    /\ tables = <<>>
    /\ open_call = NoOpenCall
    /\ live = (IF executor = "None" THEN 0 ELSE 1)
    /\ attempts = 0
    /\ opened = live
    /\ resubmission = FALSE
    /\ max_results = 0
    /\ explorer_state = <<0>>
    /\ activation = NoActivation
    /\ history = <<>>
    /\ history_available = FALSE
    /\ list_state = <<0>>
    /\ readonly = <<>>
    /\ items = <<>>

NextExecutor ==
    \/ DirectExecute
    \/ ReplyRows
    \/ ReplyCount
    \/ ReplyError

SpecExecutor == InitExecutor /\ [][NextExecutor]_vars

----------------------------------------------------------------------------
(* One cell of a fetched row, and its conversion to text *)

\* stands for U+FFFD, which from_utf8_lossy writes for an invalid byte
ReplacementCharacter == "?"

\* bytes of binary payloads: 65 is "A"; 255 occurs in no UTF-8 encoding
PayloadBytes == {65, 255}

PayloadSizes == {0, 1, 10, 32, 33, 40}

Payloads ==
    {[k \in 1..n |-> b] : n \in PayloadSizes, b \in PayloadBytes}
        \cup {[k \in 1..n |-> IF k = 1 THEN 255 ELSE 65] : n \in PayloadSizes}

ValidUtf8(p) == \A k \in 1..Len(p) : p[k] < 128

ByteChar(b) == IF b = 65 THEN "A" ELSE ReplacementCharacter

\* String::from_utf8_lossy(&bytes).to_string(); on valid UTF-8, the text itself
RECURSIVE Utf8Lossy(_)
Utf8Lossy(p) == IF p = <<>> THEN "" ELSE ByteChar(Head(p)) \o Utf8Lossy(Tail(p))

PgOtherTypes == {"BYTEA", "INTERVAL"}

MySqlOtherTypes == {"VARBINARY", "ENUM"}

SqliteOtherTypes == {"BLOB", "NUMERIC"}

\* the type names a column of the backend may report
TypesOf(pool) ==
    IF pool = "Postgres" THEN PgErrTypes \cup PgTextTypes \cup PgOtherTypes
    ELSE IF pool = "MySql" THEN MySqlErrTypes \cup MySqlStringTypes \cup MySqlOtherTypes
    ELSE SqliteErrTypes \cup {"TEXT", "DATETIME"} \cup SqliteOtherTypes

\* the types whose values are byte strings
BinaryTypes(pool) ==
    IF pool = "Postgres" THEN {"BYTEA"}
    ELSE IF pool = "MySql" THEN {"BLOB", "BINARY", "VARBINARY"}
    ELSE {"BLOB"}

\* a SQL NULL: every decode of it to a non-Option type fails
NullCell(ty) ==
    [name |-> "c", ty |-> ty, null |-> TRUE, typed |-> DecodeFailed,
     str |-> DecodeFailed, bytes |-> DecodeFailed, payload |-> <<>>]

\* a non-null value that is not a byte string; t, s, b: which decodes succeed
ScalarCell(ty, t, s, b) ==
    [name |-> "c", ty |-> ty, null |-> FALSE,
     typed |-> IF t THEN Decoded("typed value") ELSE DecodeFailed,
     str |-> IF s THEN Decoded("text value") ELSE DecodeFailed,
     bytes |-> IF b THEN Decoded("text value") ELSE DecodeFailed,
     payload |-> <<>>]

\* a non-null byte string p; a String can only come out of valid UTF-8
BinaryCell(ty, p, s, b) ==
    [name |-> "c", ty |-> ty, null |-> FALSE, typed |-> DecodeFailed,
     str |-> IF s /\ ValidUtf8(p) THEN Decoded(Utf8Lossy(p)) ELSE DecodeFailed,
     bytes |-> IF b THEN Decoded(Utf8Lossy(p)) ELSE DecodeFailed,
     payload |-> p]

Cells(pool) ==
    {NullCell(ty) : ty \in TypesOf(pool)}
        \cup {ScalarCell(ty, t, s, b) :
                 ty \in TypesOf(pool) \ BinaryTypes(pool), t \in BOOLEAN,
                 s \in BOOLEAN, b \in BOOLEAN}
        \cup {BinaryCell(ty, p, s, b) :
                 ty \in BinaryTypes(pool), p \in Payloads,
                 s \in BOOLEAN, b \in BOOLEAN}

\* pg_value_to_string / mysql_value_to_string / sqlite_value_to_string called
\* on one cell of a fetched row
Convert ==
    /\ pc = "cell"
    /\ cell_text' = value_to_string(executor, raw_value)
    /\ tried' = decodes(executor, raw_value)
    /\ pc' = "idle"
    /\ UNCHANGED <<raw_value, pageVars, caller, arg_query, queries, idx,
                   all_headers, all_rows, result, sent, replied, committed>>
    /\ UNCHANGED <<appVars, navVars, sideVars, history>>

\* a connected executor about to convert one cell
InitCell ==
    /\ query = <<>>
    /\ cursor_position = 0
    /\ results = <<>>
    /\ headers = <<>>
    /\ error = NoError
    /\ executor \in Backends
    /\ focus = "Query"
    /\ table_state = <<>>
    /\ horizontal_scroll = 0
    /\ pc = "cell"
    /\ caller = "direct"
    /\ arg_query = <<>>
    /\ queries = <<>>
    /\ idx = 0
    /\ all_headers = <<>>
    /\ all_rows = <<>>
    /\ result = NoResult
    /\ sent = <<>>
    /\ replied = <<>>
    /\ committed = <<>>
    /\ raw_value \in Cells(executor)
    /\ cell_text = ""
    /\ tried = <<>>
    /\ state = "QueryPage"
    /\ error_message = NoError
    /\ connection = DbTypeOf(executor)
    /\ tables = <<>>
    /\ open_call = NoOpenCall
    /\ live = (IF executor = "None" THEN 0 ELSE 1)
    /\ attempts = 0
    /\ opened = live
    /\ resubmission = FALSE
    /\ max_results = 0
    /\ explorer_state = <<0>>
    /\ activation = NoActivation
    /\ history = <<>>
    /\ history_available = FALSE
    /\ list_state = <<0>>
    /\ readonly = <<>>
    /\ items = <<>>

NextCell == Convert

SpecCell == InitCell /\ [][NextCell]_vars

----------------------------------------------------------------------------
(* The application: connection list, new-connection form and query page *)

MaxAttempts == 2

\* Duration::from_secs(5), counted in seconds
ConnectTimeout == 5

\* the db_type of a saved connection (connections.json is read as it is)
DbTypes == {"postgres", "mysql", "mariadb", "sqlite", "oracle"}

\* the db_type values validate_and_save lets through
FormDbTypes == {"postgres", "mysql", "sqlite"}

OpenKindDefaultSqlite(db_type) ==
    IF db_type = "postgres" THEN "Postgres"
    ELSE IF db_type \in {"mysql", "mariadb"} THEN "MySql"
    ELSE "Sqlite"

\* the match on connection.db_type in QueryExecutor::new
OpenKind(db_type) ==
    IF db_type = "postgres" THEN "Postgres"
    ELSE IF db_type \in {"mysql", "mariadb"} THEN "MySql"
    ELSE IF db_type = "sqlite" THEN "Sqlite"
    ELSE "Unsupported"

DriverErrMsgs == {"connection refused"}

\* the Display text of tokio's Elapsed
ElapsedMsg == "deadline has elapsed"

PgTablesQuery ==
    <<"S","E","L","E","C","T"," ","t","a","b","l","e","_","n","a","m","e",
      " ","F","R","O","M"," ","i","n","f","o","r","m","a","t","i","o","n",
      "_","s","c","h","e","m","a",".","t","a","b","l","e","s"," ","W","H",
      "E","R","E"," ","t","a","b","l","e","_","s","c","h","e","m","a"," ",
      "="," ","'","p","u","b","l","i","c","'">>

MySqlTablesQuery == <<"S","H","O","W"," ","T","A","B","L","E","S">>

SqliteTablesQuery ==
    <<"S","E","L","E","C","T"," ","n","a","m","e"," ","F","R","O","M"," ",
      "s","q","l","i","t","e","_","m","a","s","t","e","r"," ","W","H","E",
      "R","E"," ","t","y","p","e","=","'","t","a","b","l","e","'">>

\* the statement load_tables runs for the connection's db_type
LoadTablesQuery(db_type) ==
    IF db_type = "postgres" THEN PgTablesQuery
    ELSE IF db_type \in {"mysql", "mariadb"} THEN MySqlTablesQuery
    ELSE SqliteTablesQuery

\* the texts set_query puts into the query buffer
AppTexts == TextsOf(1) \ {<<>>}

execLocals == <<caller, arg_query, queries, idx, all_headers, all_rows, result,
                sent, replied, committed>>

ConnectErrStays(e) ==
    /\ error_message' = "Connection failed: " \o e
    /\ pc' = "idle"
    /\ UNCHANGED state

\* connect returns the error e of QueryExecutor::new; App::handle_input shows
\* it on the connection list
ConnectErr(e) ==
    /\ error_message' = "Connection failed: " \o e
    /\ state' = "ConnectionList"
    /\ pc' = "idle"

\* QueryPage::connect(connection) up to the first suspension of
\* QueryExecutor::new, or to its return when the db_type has no arm
Connect(db_type) ==
    /\ attempts' = attempts + 1
    /\ UNCHANGED <<pageVars, cellVars, navVars, sideVars, history,
                   execLocals, connection, tables, live,
                   opened, resubmission>>
    /\ IF OpenKind(db_type) = "Unsupported"
       THEN /\ open_call' = [db_type |-> db_type, dialed |-> 0, elapsed |-> 0,
                             outcome |-> "UnsupportedBackend",
                             msg |-> "Unsupported database type"]
            /\ ConnectErr("Unsupported database type")
       ELSE /\ open_call' = [db_type |-> db_type, dialed |-> 1, elapsed |-> 0,
                             outcome |-> "pending", msg |-> ""]
            /\ pc' = "connecting"
            /\ error_message' = NoError
            /\ UNCHANGED state

\* App::handle_input, connection list: a key that selects nothing
ListKey ==
    /\ state = "ConnectionList"
    /\ pc = "idle"
    /\ error_message # NoError
    /\ error_message' = NoError
    /\ UNCHANGED <<pageVars, cellVars, navVars, sideVars, history,
                   execVars, state, connection, tables,
                   open_call, live, attempts, opened, resubmission>>

\* ConnectionListAction::NewConnection
NewConnectionKey ==
    /\ state = "ConnectionList"
    /\ pc = "idle"
    /\ state' = "NewConnection"
    /\ error_message' = NoError
    /\ UNCHANGED <<pageVars, cellVars, navVars, sideVars, history,
                   execVars, connection, tables,
                   open_call, live, attempts, opened, resubmission>>

\* ConnectionListAction::SelectConnection(idx)
SelectConnection ==
    /\ state = "ConnectionList"
    /\ pc = "idle"
    /\ attempts < MaxAttempts
    /\ \E db_type \in DbTypes : Connect(db_type)

\* NewConnectionAction::Cancel
Cancel ==
    /\ state = "NewConnection"
    /\ pc = "idle"
    /\ state' = "ConnectionList"
    /\ UNCHANGED <<pageVars, cellVars, navVars, sideVars, history,
                   execVars, error_message, connection,
                   tables, open_call, live, attempts, opened, resubmission>>

\* NewConnectionAction::Save(conn), after the connection was written to the file
Save ==
    /\ state = "NewConnection"
    /\ pc = "idle"
    /\ attempts < MaxAttempts
    /\ \E db_type \in FormDbTypes : Connect(db_type)

\* one second passes while timeout(..) awaits the pool's connect; at the
\* bound the timeout returns Elapsed.  The timer lives as long as the call:
\* open_call.elapsed is 0 again once the call has returned
Tick ==
    /\ pc = "connecting"
    /\ LET e == open_call.elapsed + 1
       IN  IF e = ConnectTimeout
           THEN /\ open_call' = [open_call EXCEPT !.elapsed = 0,
                                     !.outcome = "Timeout", !.msg = ElapsedMsg]
                /\ ConnectErr(ElapsedMsg)
           ELSE /\ open_call' = [open_call EXCEPT !.elapsed = e]
                /\ UNCHANGED <<pc, state, error_message>>
    /\ UNCHANGED <<pageVars, cellVars, navVars, sideVars, history,
                   execLocals, connection, tables, live,
                   attempts, opened, resubmission>>

DriverFailedRetry ==
    /\ pc = "connecting"
    /\ IF open_call.dialed < 2
       THEN /\ open_call' = [open_call EXCEPT !.dialed = open_call.dialed + 1]
            /\ UNCHANGED <<pc, state, error_message>>
       ELSE \E m \in DriverErrMsgs :
               /\ open_call' = [open_call EXCEPT !.elapsed = 0,
                                                  !.outcome = "ConnectFailure",
                                                  !.msg = m]
               /\ ConnectErr(m)
    /\ UNCHANGED <<pageVars, cellVars, navVars, sideVars, history,
                   execLocals, connection, tables, live,
                   attempts, opened, resubmission>>

\* the pool's connect fails before the bound
DriverFailed ==
    /\ pc = "connecting"
    /\ \E m \in DriverErrMsgs :
          /\ open_call' = [open_call EXCEPT !.elapsed = 0,
                                             !.outcome = "ConnectFailure", !.msg = m]
          /\ ConnectErr(m)
    /\ UNCHANGED <<pageVars, cellVars, navVars, sideVars, history,
                   execLocals, connection, tables, live,
                   attempts, opened, resubmission>>

\* the pool's connect succeeds before the bound: connect installs the
\* executor, resets the page and suspends on load_tables' statement
DriverConnected ==
    /\ pc = "connecting"
    /\ open_call' = [open_call EXCEPT !.elapsed = 0, !.outcome = "Session"]
    /\ live' = live + 1
    /\ opened' = opened + 1
    /\ resubmission' = FALSE
    /\ connection' = open_call.db_type
    /\ executor' = OpenKind(open_call.db_type)
    /\ query' = <<>>
    /\ cursor_position' = 0
    /\ results' = <<>>
    /\ headers' = <<>>
    /\ error' = NoError
    /\ focus' = "Query"
    /\ table_state' = <<>>
    /\ horizontal_scroll' = 0
    /\ Execute(OpenKind(open_call.db_type), LoadTablesQuery(open_call.db_type),
               "tables")
    /\ UNCHANGED <<cellVars, navVars, sideVars, history,
                   state, error_message, tables, attempts>>

BackKeepsExecutor ==
    /\ state = "QueryPage"
    /\ pc = "idle"
    /\ connection' = "None"
    /\ tables' = <<>>
    /\ state' = "ConnectionList"
    /\ UNCHANGED <<executor, pc>>
    /\ UNCHANGED <<query, cursor_position, results, headers, error, focus,
                   table_state, horizontal_scroll>>
    /\ UNCHANGED <<cellVars, navVars, sideVars, history, execLocals,
                   error_message, open_call, live, attempts, opened,
                   resubmission>>

\* QueryPageAction::Back: disconnect takes the executor and awaits its close
Back ==
    /\ state = "QueryPage"
    /\ pc = "idle"
    /\ IF executor # "None"
       THEN /\ executor' = "None"
            /\ pc' = "closing"
            /\ UNCHANGED <<state, connection, tables>>
       ELSE /\ connection' = "None"
            /\ tables' = <<>>
            /\ state' = "ConnectionList"
            /\ UNCHANGED <<executor, pc>>
    /\ UNCHANGED <<query, cursor_position, results, headers, error, focus,
                   table_state, horizontal_scroll>>
    /\ UNCHANGED <<cellVars, navVars, sideVars, history,
                   execLocals, error_message, open_call, live,
                   attempts, opened, resubmission>>

CloseNotDone ==
    /\ pc = "closing"
    /\ connection' = "None"
    /\ tables' = <<>>
    /\ state' = "ConnectionList"
    /\ pc' = "idle"
    /\ UNCHANGED <<pageVars, cellVars, navVars, sideVars, history,
                   execLocals, error_message, open_call,
                   live, attempts, opened, resubmission>>

\* executor.close() has completed; disconnect clears the rest and the
\* connection list is shown
CloseDone ==
    /\ pc = "closing"
    /\ live' = live - 1
    /\ connection' = "None"
    /\ tables' = <<>>
    /\ state' = "ConnectionList"
    /\ pc' = "idle"
    /\ UNCHANGED <<pageVars, cellVars, navVars, sideVars, history,
                   execLocals, error_message, open_call,
                   attempts, opened, resubmission>>

ToggleFocusWhileSuspended ==
    /\ state = "QueryPage"
    /\ focus' = IF focus = "Query" THEN "Results" ELSE "Query"
    /\ UNCHANGED <<query, cursor_position, results, headers, error, executor,
                   table_state, horizontal_scroll>>
    /\ UNCHANGED <<cellVars, navVars, sideVars, history, execVars, appVars>>

\* QueryPage::handle_input, Tab
ToggleFocus ==
    /\ state = "QueryPage"
    /\ pc = "idle"
    /\ focus' = IF focus = "Query" THEN "Results" ELSE "Query"
    /\ UNCHANGED <<query, cursor_position, results, headers, error, executor,
                   table_state, horizontal_scroll>>
    /\ UNCHANGED <<cellVars, navVars, sideVars, history, execVars, appVars>>

AppSetQuery == state = "QueryPage" /\ \E t \in AppTexts : SetQuery(t)

\* the error texts execute_query shows for a failed statement
QueryErrors == {"Query error: " \o m : m \in ErrMsgs}

\* QueryPage::handle_input, Ctrl+E
AppExecuteQuery ==
    /\ state = "QueryPage"
    /\ PageExecuteQuery
    /\ resubmission' = (error \in QueryErrors)
    /\ UNCHANGED sessionVars

\* App::new
InitApp ==
    /\ query = <<>>
    /\ cursor_position = 0
    /\ results = <<>>
    /\ headers = <<>>
    /\ error = NoError
    /\ executor = "None"
    /\ focus = "Query"
    /\ table_state = <<>>
    /\ horizontal_scroll = 0
    /\ pc = "idle"
    /\ caller = "page"
    /\ arg_query = <<>>
    /\ queries = <<>>
    /\ idx = 0
    /\ all_headers = <<>>
    /\ all_rows = <<>>
    /\ result = NoResult
    /\ sent = <<>>
    /\ replied = <<>>
    /\ committed = <<>>
    /\ raw_value = NoCell
    /\ cell_text = ""
    /\ tried = <<>>
    /\ state = "ConnectionList"
    /\ error_message = NoError
    /\ connection = "None"
    /\ tables = <<>>
    /\ open_call = NoOpenCall
    /\ live = 0
    /\ attempts = 0
    /\ opened = 0
    /\ resubmission = FALSE
    /\ max_results = 0
    /\ explorer_state = <<0>>
    /\ activation = NoActivation
    /\ history = <<>>
    /\ history_available = FALSE
    /\ list_state = <<0>>
    /\ readonly = <<>>
    /\ items = <<>>

NextApp ==
    \/ ListKey
    \/ NewConnectionKey
    \/ SelectConnection
    \/ Cancel
    \/ Save
    \/ Tick
    \/ DriverFailed
    \/ DriverConnected
    \/ Back
    \/ CloseDone
    \/ ToggleFocus
    \/ AppSetQuery
    \/ AppExecuteQuery
    \/ ReplyRows
    \/ ReplyCount
    \/ ReplyError

SpecApp == InitApp /\ [][NextApp]_vars

----------------------------------------------------------------------------
(* QueryPage::handle_input: the keys of the query page *)

Min2(a, b) == IF a < b THEN a ELSE b

saturating_sub(a, b) == IF a > b THEN a - b ELSE 0

\* the rows a paged move steps over
PageStep == 10

\* max_len of scroll_down and scroll_page_down: the rows the table shows
max_len ==
    IF max_results > 0 THEN Min2(max_results, Len(results)) ELSE Len(results)

scroll_up(sel) ==
    IF sel # <<>> THEN (IF sel[1] > 0 THEN <<sel[1] - 1>> ELSE <<0>>) ELSE <<0>>

scroll_down_uncapped(sel) ==
    IF sel # <<>>
    THEN (IF sel[1] < saturating_sub(Len(results), 1) THEN <<sel[1] + 1>> ELSE sel)
    ELSE <<0>>

scroll_down(sel) ==
    IF sel # <<>>
    THEN (IF sel[1] < saturating_sub(max_len, 1) THEN <<sel[1] + 1>> ELSE sel)
    ELSE <<0>>

scroll_page_up(sel) ==
    IF sel # <<>> THEN <<saturating_sub(sel[1], PageStep)>> ELSE <<0>>

scroll_page_down(sel) ==
    IF sel # <<>>
    THEN <<Min2(sel[1] + PageStep, saturating_sub(max_len, 1))>>
    ELSE <<0>>

\* chars.insert(cursor_pos, c) / chars.remove(k), on the characters of the buffer
InsertAt(t, k, c) == SubSeq(t, 1, k) \o <<c>> \o SubSeq(t, k + 1, Len(t))

RemoveAt(t, k) == SubSeq(t, 1, k) \o SubSeq(t, k + 2, Len(t))

\* a key press reaches the query page while no call is suspended; no key but
\* Ctrl+E and Esc touches the grid, the error, the session or the application
KeyPress ==
    /\ state = "QueryPage"
    /\ pc = "idle"
    /\ UNCHANGED <<results, headers, error, executor>>
    /\ UNCHANGED <<cellVars, navVars, sideVars, history, execVars, appVars>>

KeyCtrlCAnyFocus ==
    /\ KeyPress
    /\ query' = <<>>
    /\ cursor_position' = 0
    /\ UNCHANGED <<focus, table_state, horizontal_scroll>>

\* Ctrl+C
KeyCtrlC ==
    /\ KeyPress
    /\ IF focus = "Query"
       THEN /\ query' = <<>>
            /\ cursor_position' = 0
       ELSE UNCHANGED <<query, cursor_position>>
    /\ UNCHANGED <<focus, table_state, horizontal_scroll>>

KeyUp ==
    /\ KeyPress
    /\ table_state' = IF focus = "Results" THEN scroll_up(table_state) ELSE table_state
    /\ UNCHANGED <<query, cursor_position, focus, horizontal_scroll>>

KeyDown ==
    /\ KeyPress
    /\ table_state' = IF focus = "Results" THEN scroll_down(table_state) ELSE table_state
    /\ UNCHANGED <<query, cursor_position, focus, horizontal_scroll>>

KeyLeft ==
    /\ KeyPress
    /\ horizontal_scroll' =
          IF focus = "Results" /\ horizontal_scroll > 0
          THEN horizontal_scroll - 1 ELSE horizontal_scroll
    /\ cursor_position' =
          IF focus = "Query" /\ cursor_position > 0
          THEN cursor_position - 1 ELSE cursor_position
    /\ UNCHANGED <<query, focus, table_state>>

KeyRightUnclamped ==
    /\ KeyPress
    /\ horizontal_scroll' =
          IF focus = "Results" THEN horizontal_scroll + 1 ELSE horizontal_scroll
    /\ cursor_position' =
          IF focus = "Query" /\ cursor_position < Len(query)
          THEN cursor_position + 1 ELSE cursor_position
    /\ UNCHANGED <<query, focus, table_state>>

KeyRight ==
    /\ KeyPress
    /\ horizontal_scroll' =
          IF focus = "Results" /\ horizontal_scroll + 1 < Len(headers)
          THEN horizontal_scroll + 1 ELSE horizontal_scroll
    /\ cursor_position' =
          IF focus = "Query" /\ cursor_position < Len(query)
          THEN cursor_position + 1 ELSE cursor_position
    /\ UNCHANGED <<query, focus, table_state>>

KeyPageUp ==
    /\ KeyPress
    /\ table_state' =
          IF focus = "Results" THEN scroll_page_up(table_state) ELSE table_state
    /\ cursor_position' = IF focus = "Query" THEN 0 ELSE cursor_position
    /\ UNCHANGED <<query, focus, horizontal_scroll>>

KeyPageDown ==
    /\ KeyPress
    /\ table_state' =
          IF focus = "Results" THEN scroll_page_down(table_state) ELSE table_state
    /\ cursor_position' = IF focus = "Query" THEN Len(query) ELSE cursor_position
    /\ UNCHANGED <<query, focus, horizontal_scroll>>

\* the longest buffer a character is typed into
MaxEditLen == 2

\* the characters typed: the jump keys of the grid, the digits the help line
\* names for the panes, and the letters of a Read keyword
KeyChars == {"t", "b", "1", "2"}

\* a character key without the Control modifier
KeyChar(c) ==
    /\ KeyPress
    /\ focus = "Query" => Len(query) < MaxEditLen
    /\ IF c \in {"t", "T"} /\ focus = "Results"
       THEN /\ table_state' = <<0>>
            /\ UNCHANGED <<query, cursor_position>>
       ELSE IF c \in {"b", "B"} /\ focus = "Results"
       THEN /\ table_state' = IF results # <<>>
                              THEN <<Len(results) - 1>> ELSE table_state
            /\ UNCHANGED <<query, cursor_position>>
       ELSE IF focus = "Query"
       THEN /\ query' = InsertAt(query, Min2(cursor_position, Len(query)), c)
            /\ cursor_position' = cursor_position + 1
            /\ UNCHANGED table_state
       ELSE UNCHANGED <<query, cursor_position, table_state>>
    /\ UNCHANGED <<focus, horizontal_scroll>>

KeyBackspaceKeepsCursor ==
    /\ KeyPress
    /\ IF focus = "Query" /\ cursor_position > 0
          /\ Min2(cursor_position, Len(query)) > 0
       THEN /\ query' = RemoveAt(query, Min2(cursor_position, Len(query)) - 1)
            /\ UNCHANGED cursor_position
       ELSE UNCHANGED <<query, cursor_position>>
    /\ UNCHANGED <<focus, table_state, horizontal_scroll>>

KeyBackspace ==
    /\ KeyPress
    /\ IF focus = "Query" /\ cursor_position > 0
          /\ Min2(cursor_position, Len(query)) > 0
       THEN /\ query' = RemoveAt(query, Min2(cursor_position, Len(query)) - 1)
            /\ cursor_position' = cursor_position - 1
       ELSE UNCHANGED <<query, cursor_position>>
    /\ UNCHANGED <<focus, table_state, horizontal_scroll>>

KeyDelete ==
    /\ KeyPress
    /\ query' = IF focus = "Query" /\ Min2(cursor_position, Len(query)) < Len(query)
                THEN RemoveAt(query, Min2(cursor_position, Len(query)))
                ELSE query
    /\ UNCHANGED <<cursor_position, focus, table_state, horizontal_scroll>>

KeyEnter ==
    /\ KeyPress
    /\ focus = "Query" => Len(query) < MaxEditLen
    /\ IF focus = "Query"
       THEN /\ query' = InsertAt(query, Min2(cursor_position, Len(query)), "\n")
            /\ cursor_position' = cursor_position + 1
       ELSE UNCHANGED <<query, cursor_position>>
    /\ UNCHANGED <<focus, table_state, horizontal_scroll>>

----------------------------------------------------------------------------
(* Browsing a grid: the page after an execution that returned rows *)

MaxBrowseRows == 12

\* no call of execute or of a converter is under way or has been made
NoCall ==
    /\ pc = "idle"
    /\ caller = "page"
    /\ arg_query = <<>>
    /\ queries = <<>>
    /\ idx = 0
    /\ all_headers = <<>>
    /\ all_rows = <<>>
    /\ result = NoResult
    /\ sent = <<>>
    /\ replied = <<>>
    /\ committed = <<>>
    /\ raw_value = NoCell
    /\ cell_text = ""
    /\ tried = <<>>

\* the application shows the query page, connected by its first connect
SessionOpen ==
    /\ executor \in Backends
    /\ state = "QueryPage"
    /\ error_message = NoError
    /\ connection = DbTypeOf(executor)
    /\ open_call = NoOpenCall
    /\ live = 1
    /\ attempts = 0
    /\ opened = 1
    /\ resubmission = FALSE

\* a grid of n rows under one header
BrowseRows(n) == [r \in 1..n |-> <<"v" \o ToString(r)>>]

\* execute_query has returned n >= 1 rows and Tab has moved the focus to the
\* results; the row cap is any value
InitBrowse ==
    /\ query = kwSelect
    /\ cursor_position = Len(query)
    /\ results \in {BrowseRows(n) : n \in 1..MaxBrowseRows}
    /\ headers = <<"c1of1">>
    /\ error = NoError
    /\ focus = "Results"
    /\ table_state = <<0>>
    /\ horizontal_scroll = 0
    /\ NoCall
    /\ SessionOpen
    /\ tables = <<>>
    /\ max_results \in 0..(MaxBrowseRows + 1)
    /\ explorer_state = <<0>>
    /\ activation = NoActivation
    /\ history = <<>>
    /\ history_available = FALSE
    /\ list_state = <<0>>
    /\ readonly = <<>>
    /\ items = <<>>

NextBrowse ==
    \/ KeyUp
    \/ KeyDown
    \/ KeyPageUp
    \/ KeyPageDown

SpecBrowse == InitBrowse /\ [][NextBrowse]_vars

----------------------------------------------------------------------------
(* The keys of a connected query page, with executions *)

\* the texts set_query puts into the buffer: a Read statement
KeyTexts == {kwWith}

KeySetQuery == state = "QueryPage" /\ \E t \in KeyTexts : SetQuery(t)

\* with executions in play the buffer is edited only while it holds at most
\* one character: a character is typed into an empty buffer, and a character
\* is deleted from a buffer of one
KeysChar == (focus = "Query" => query = <<>>) /\ \E c \in KeyChars : KeyChar(c)

KeysEnter == (focus = "Query" => query = <<>>) /\ KeyEnter

KeysBackspace == (focus = "Query" => Len(query) <= 1) /\ KeyBackspace

KeysDelete == (focus = "Query" => Len(query) <= 1) /\ KeyDelete

\* connect has returned Ok on a new page; the row cap is any value
InitKeys ==
    /\ query = <<>>
    /\ cursor_position = 0
    /\ results = <<>>
    /\ headers = <<>>
    /\ error = NoError
    /\ focus = "Query"
    /\ table_state = <<>>
    /\ horizontal_scroll = 0
    /\ NoCall
    /\ SessionOpen
    /\ tables = <<>>
    /\ max_results \in 0..MaxRows
    /\ explorer_state = <<0>>
    /\ activation = NoActivation
    /\ history = <<>>
    /\ history_available = FALSE
    /\ list_state = <<0>>
    /\ readonly = <<>>
    /\ items = <<>>

NextKeys ==
    \/ ToggleFocus
    \/ ExecuteQuery
    \/ KeyCtrlC
    \/ KeyUp
    \/ KeyDown
    \/ KeyLeft
    \/ KeyRight
    \/ KeyPageUp
    \/ KeyPageDown
    \/ KeysChar
    \/ KeysBackspace
    \/ KeysDelete
    \/ KeysEnter
    \/ KeySetQuery
    \/ ReplyRows
    \/ ReplyCount
    \/ ReplyError

SpecKeys == InitKeys /\ [][NextKeys]_vars

----------------------------------------------------------------------------
(* Editing the buffer, across disconnects and connects; nothing is executed *)

EditChar == KeyChar("a")

\* set_query puts a text of two lines into the buffer
EditSetQuery == state = "QueryPage" /\ SetQuery(<<"a", "\n", "a">>)

\* connect has returned Ok on a new page
InitEdit ==
    /\ query = <<>>
    /\ cursor_position = 0
    /\ results = <<>>
    /\ headers = <<>>
    /\ error = NoError
    /\ focus = "Query"
    /\ table_state = <<>>
    /\ horizontal_scroll = 0
    /\ NoCall
    /\ SessionOpen
    /\ tables = <<>>
    /\ max_results = 0
    /\ explorer_state = <<0>>
    /\ activation = NoActivation
    /\ history = <<>>
    /\ history_available = FALSE
    /\ list_state = <<0>>
    /\ readonly = <<>>
    /\ items = <<>>

NextEdit ==
    \/ ToggleFocus
    \/ KeyCtrlC
    \/ KeyLeft
    \/ KeyRight
    \/ KeyPageUp
    \/ KeyPageDown
    \/ EditChar
    \/ KeyBackspace
    \/ KeyDelete
    \/ KeyEnter
    \/ EditSetQuery
    \/ Back
    \/ CloseDone
    \/ SelectConnection
    \/ Tick
    \/ DriverFailed
    \/ DriverConnected
    \/ ReplyRows
    \/ ReplyError

SpecEdit == InitEdit /\ [][NextEdit]_vars

----------------------------------------------------------------------------
(* The schema explorer of a connected page *)

\* the characters of a table name the backend of the model returns
NameChars(name) ==
    IF name = "NULL" THEN <<"N", "U", "L", "L">>
    ELSE LET r == CHOOSE k \in 1..(MaxRows + 1) :
                      name = "v" \o ToString(k) \o ".1of1"
         IN  <<"v", ToString(r), ".", "1", "o", "f", "1">>

PgColumnsQuery ==
    <<"S","E","L","E","C","T"," ","c","o","l","u","m","n","_","n","a","m",
      "e"," ","F","R","O","M"," ","i","n","f","o","r","m","a","t","i","o",
      "n","_","s","c","h","e","m","a",".","c","o","l","u","m","n","s"," ",
      "W","H","E","R","E"," ","t","a","b","l","e","_","n","a","m","e"," ",
      "="," ","'">>

MySqlColumnsQuery == <<"D","E","S","C","R","I","B","E"," ">>

SqliteColumnsQuery ==
    <<"P","R","A","G","M","A"," ","t","a","b","l","e","_","i","n","f","o",
      "(">>

\* the statement toggle_table_expansion runs for a table
ColumnsQuery(db_type, table_name) ==
    IF db_type = "postgres" THEN PgColumnsQuery \o NameChars(table_name) \o <<"'">>
    ELSE IF db_type \in {"mysql", "mariadb"}
    THEN MySqlColumnsQuery \o NameChars(table_name)
    ELSE IF db_type = "sqlite"
    THEN SqliteColumnsQuery \o NameChars(table_name) \o <<")">>
    ELSE <<>>

\* total_items of explorer_scroll_down: the rows of the flattened tree
RECURSIVE total_items_from(_, _)
total_items_from(ts, i) ==
    IF i > Len(ts) THEN 0
    ELSE 1 + (IF ts[i].expanded THEN FieldsLen(ts[i]) ELSE 0)
           + total_items_from(ts, i + 1)

total_items == total_items_from(tables, 1)

\* an explorer operation is called on the shown page while no call is
\* suspended; it leaves the page's other fields and the application alone
ExplorerCall ==
    /\ state = "QueryPage"
    /\ pc = "idle"
    /\ UNCHANGED <<pageVars, cellVars, max_results, sideVars, history>>
    /\ UNCHANGED <<state, error_message, connection, open_call, live, attempts,
                   opened, resubmission>>

\* QueryPage::explorer_scroll_up
ExplorerScrollUp ==
    /\ ExplorerCall
    /\ explorer_state' =
          IF explorer_state # <<>> /\ explorer_state[1] > 0
          THEN <<explorer_state[1] - 1>> ELSE explorer_state
    /\ UNCHANGED <<tables, activation, execVars>>

\* QueryPage::explorer_scroll_down
ExplorerScrollDown ==
    /\ ExplorerCall
    /\ explorer_state' =
          IF explorer_state # <<>>
             /\ explorer_state[1] < saturating_sub(total_items, 1)
          THEN <<explorer_state[1] + 1>> ELSE explorer_state
    /\ UNCHANGED <<tables, activation, execVars>>

ToggleDiscardsColumns ==
    /\ ExplorerCall
    /\ activation' = [selected |-> explorer_state, tables |-> tables]
    /\ UNCHANGED explorer_state
    /\ IF explorer_state = <<>> \/ found_index = 0
       THEN UNCHANGED <<tables, execVars>>
       ELSE LET i == found_index
            IN  IF tables[i].expanded
                THEN /\ tables' = [tables EXCEPT ![i] =
                                      [@ EXCEPT !.expanded = FALSE, !.fields = <<>>]]
                     /\ UNCHANGED execVars
                ELSE IF tables[i].fields = <<>> /\ executor # "None"
                        /\ connection # "None"
                THEN LET q == ColumnsQuery(connection, tables[i].name)
                     IN  /\ Execute(executor, q, "columns")
                         /\ IF Split(q) = <<>>
                            THEN tables' = [tables EXCEPT ![i] =
                                     [@ EXCEPT !.fields = << <<>> >>,
                                               !.expanded = TRUE]]
                            ELSE UNCHANGED tables
                ELSE /\ tables' = [tables EXCEPT ![i].expanded = TRUE]
                     /\ UNCHANGED execVars

\* QueryPage::toggle_table_expansion, up to the point where it awaits execute
ToggleTableExpansion ==
    /\ ExplorerCall
    /\ activation' = [selected |-> explorer_state, tables |-> tables]
    /\ UNCHANGED explorer_state
    /\ IF explorer_state = <<>> \/ found_index = 0
       THEN UNCHANGED <<tables, execVars>>
       ELSE LET i == found_index
            IN  IF tables[i].expanded
                THEN /\ tables' = [tables EXCEPT ![i].expanded = FALSE]
                     /\ UNCHANGED execVars
                ELSE IF tables[i].fields = <<>> /\ executor # "None"
                        /\ connection # "None"
                THEN LET q == ColumnsQuery(connection, tables[i].name)
                     IN  /\ Execute(executor, q, "columns")
                         /\ IF Split(q) = <<>>
                            THEN tables' = [tables EXCEPT ![i] =
                                     [@ EXCEPT !.fields = << <<>> >>,
                                               !.expanded = TRUE]]
                            ELSE UNCHANGED tables
                ELSE /\ tables' = [tables EXCEPT ![i].expanded = TRUE]
                     /\ UNCHANGED execVars

\* connect has returned Ok: load_tables has listed the tables
InitExplorer ==
    /\ query = <<>>
    /\ cursor_position = 0
    /\ results = <<>>
    /\ headers = <<>>
    /\ error = NoError
    /\ focus = "Query"
    /\ table_state = <<>>
    /\ horizontal_scroll = 0
    /\ NoCall
    /\ SessionOpen
    /\ tables \in {LoadedTables(ReadResult(executor, raw).rows) : raw \in TableReplies}
    /\ max_results = 0
    /\ explorer_state = <<0>>
    /\ activation = NoActivation
    /\ history = <<>>
    /\ history_available = FALSE
    /\ list_state = <<0>>
    /\ readonly = <<>>
    /\ items = <<>>

NextExplorer ==
    \/ ExplorerScrollUp
    \/ ExplorerScrollDown
    \/ ToggleTableExpansion
    \/ ReplyRows
    \/ ReplyCount
    \/ ReplyError

SpecExplorer == InitExplorer /\ [][NextExplorer]_vars

\* the explorer's selection across disconnects and connects
NextReopen ==
    \/ ExplorerScrollUp
    \/ ExplorerScrollDown
    \/ Back
    \/ CloseDone
    \/ SelectConnection
    \/ Tick
    \/ DriverFailed
    \/ DriverConnected
    \/ ReplyRows
    \/ ReplyError

SpecReopen == InitExplorer /\ [][NextReopen]_vars

----------------------------------------------------------------------------
(* QueryPage::render_explorer: the list that is drawn for the tree *)

\* the two prefixes stand for the folder glyph and the branch glyph of the
\* format strings
TableItem(t) == [text |-> "[] " \o t.name, gray |-> FALSE]

FieldItem(field) == [text |-> "  +- " \o field, gray |-> TRUE]

FieldItemsWhenLoaded(t) ==
    IF t.fields # <<>>
    THEN [k \in 1..Len(t.fields[1]) |-> FieldItem(t.fields[1][k])]
    ELSE <<>>

\* the items pushed for the fields of one table
FieldItems(t) ==
    IF t.expanded /\ t.fields # <<>>
    THEN [k \in 1..Len(t.fields[1]) |-> FieldItem(t.fields[1][k])]
    ELSE <<>>

\* the loop of render_explorer over self.tables, from table i on
RECURSIVE ItemsFrom(_, _)
ItemsFrom(ts, i) ==
    IF i > Len(ts) THEN <<>>
    ELSE <<TableItem(ts[i])>> \o FieldItems(ts[i]) \o ItemsFrom(ts, i + 1)

\* QueryPage::render draws the explorer of the shown page between two events
\* (the widget's own use of explorer_state lies outside the repository)
RenderExplorer ==
    /\ state = "QueryPage"
    /\ pc = "idle"
    /\ focus = "Explorer" \/ tables # <<>>
    /\ items' = ItemsFrom(tables, 1)
    /\ UNCHANGED <<pageVars, cellVars, navVars, execVars, appVars, history,
                   history_available, list_state, readonly>>

\* what a table of the tree may hold: columns not loaded, or the names that
\* were stored for it (none or two)
FieldStates == {<<>>, << <<>> >>, << <<"c1", "c2">> >>}

\* the trees of up to MaxRows listed tables, some of them activated before
Trees ==
    UNION {{[k \in 1..n |-> [name |-> LoadedTables(ReadResult("Postgres",
                                             RawRows(1, n)).rows)[k].name,
                             fields |-> f[k], expanded |-> x[k]]] :
               f \in [1..n -> FieldStates], x \in [1..n -> BOOLEAN]} :
           n \in 1..MaxRows}

\* a connected page whose explorer has been used
InitRender ==
    /\ query = <<>>
    /\ cursor_position = 0
    /\ results = <<>>
    /\ headers = <<>>
    /\ error = NoError
    /\ focus = "Query"
    /\ table_state = <<>>
    /\ horizontal_scroll = 0
    /\ NoCall
    /\ SessionOpen
    /\ tables \in Trees
    /\ max_results = 0
    /\ explorer_state = <<0>>
    /\ activation = NoActivation
    /\ history = <<>>
    /\ history_available = FALSE
    /\ list_state = <<0>>
    /\ readonly = <<>>
    /\ items = <<>>

NextRender ==
    \/ RenderExplorer
    \/ ExplorerScrollUp
    \/ ExplorerScrollDown
    \/ ToggleTableExpansion
    \/ ReplyError

SpecRender == InitRender /\ [][NextRender]_vars

----------------------------------------------------------------------------
(* The query history: HistoryManager and HistoryPage *)

MaxHistory == 4

\* the query texts that are saved
HistoryTexts == {<<"a">>, <<"b">>, <<"c">>}

\* HistoryPage::get_selected_query: <<>> = None, <<q>> = Some(q)
get_selected_query ==
    IF history = <<>> \/ list_state = <<>> THEN <<>>
    ELSE LET actual_index ==
                 saturating_sub(saturating_sub(Len(history), 1), list_state[1])
         IN  IF actual_index < Len(history) THEN <<history[actual_index + 1]>>
             ELSE <<>>

\* HistoryPage::delete_query on the stored list h: the first entry equal to
\* query_string is removed
delete_query(h, query_string) ==
    IF \E k \in 1..Len(h) : h[k] = query_string
    THEN LET index == CHOOSE k \in 1..Len(h) :
                          /\ h[k] = query_string
                          /\ \A j \in 1..(k - 1) : h[j] # query_string
         IN  SubSeq(h, 1, index - 1) \o SubSeq(h, index + 1, Len(h))
    ELSE h

\* an operation of the history is called while no handler is suspended; it
\* leaves the query page and the application alone
HistoryCall ==
    /\ pc = "idle"
    /\ UNCHANGED <<pageVars, cellVars, navVars, execVars, appVars,
                   history_available, readonly, items>>

\* HistoryManager::save_query(query_string), as execute_query calls it
HistorySave(query_string) ==
    /\ HistoryCall
    /\ history_available
    /\ Len(history) < MaxHistory
    /\ history' = save_query(history, query_string)
    /\ UNCHANGED list_state

HistorySaveQuery == \E q \in HistoryTexts : HistorySave(q)

\* HistoryPage::clear_history
HistoryClear ==
    /\ HistoryCall
    /\ history' = <<>>
    /\ list_state' = <<0>>

\* HistoryPageAction::DeleteQuery(q) for the selected query q: delete_query(q)
HistoryDeleteSelected ==
    /\ HistoryCall
    /\ get_selected_query # <<>>
    /\ history' = delete_query(history, get_selected_query[1])
    /\ UNCHANGED list_state

\* HistoryPage::scroll_up
HistoryScrollUp ==
    /\ HistoryCall
    /\ LET i == IF list_state = <<>> THEN 0 ELSE list_state[1]
       IN  list_state' = IF i > 0 THEN <<i - 1>> ELSE list_state
    /\ UNCHANGED history

\* HistoryPage::scroll_down(max), max being what the caller passes
HistoryScrollDown ==
    /\ HistoryCall
    /\ \E max \in 0..MaxHistory :
          LET i == IF list_state = <<>> THEN 0 ELSE list_state[1]
          IN  list_state' = IF i < saturating_sub(max, 1) THEN <<i + 1>>
                            ELSE list_state
    /\ UNCHANGED history

\* HistoryPage::render: the selection is brought back into the drawn list
HistoryRender ==
    /\ HistoryCall
    /\ LET total == IF history = <<>> THEN 1 ELSE Len(history)
       IN  list_state' = IF list_state # <<>> /\ list_state[1] >= total
                         THEN <<saturating_sub(total, 1)>>
                         ELSE list_state
    /\ UNCHANGED history

\* HistoryPage::new, beside a fresh application
InitHistory ==
    /\ query = <<>>
    /\ cursor_position = 0
    /\ results = <<>>
    /\ headers = <<>>
    /\ error = NoError
    /\ executor = "None"
    /\ focus = "Query"
    /\ table_state = <<>>
    /\ horizontal_scroll = 0
    /\ NoCall
    /\ state = "ConnectionList"
    /\ error_message = NoError
    /\ connection = "None"
    /\ tables = <<>>
    /\ open_call = NoOpenCall
    /\ live = 0
    /\ attempts = 0
    /\ opened = 0
    /\ resubmission = FALSE
    /\ max_results = 0
    /\ explorer_state = <<0>>
    /\ activation = NoActivation
    /\ history = <<>>
    /\ history_available = TRUE
    /\ list_state = <<0>>
    /\ readonly = <<>>
    /\ items = <<>>

NextHistory ==
    \/ HistorySaveQuery
    \/ HistoryClear
    \/ HistoryDeleteSelected
    \/ HistoryScrollUp
    \/ HistoryScrollDown
    \/ HistoryRender

SpecHistory == InitHistory /\ [][NextHistory]_vars

----------------------------------------------------------------------------
(* helpers::utils::is_readonly_query beside the executor's classification *)

is_readonly_query(q) ==
    LET lower == ToLowercase(Trim(q))
    IN  \/ StartsWith(lower, kwSelect)
        \/ StartsWith(lower, kwShow)
        \/ StartsWith(lower, kwDescribe)
        \/ StartsWith(lower, kwExplain)

\* the statements both functions are given: one statement each, some led by
\* white space
ReadonlyInputs ==
    ClassifyInputs \cup {<<" ", " ">> \o w \o <<" ", "x">> : w \in Stems}

\* is_readonly_query is called on the text execute is given
IsReadonlyQuery ==
    /\ readonly = <<>>
    /\ readonly' = <<is_readonly_query(arg_query)>>
    /\ UNCHANGED <<pageVars, cellVars, navVars, execVars, appVars, history,
                   history_available, list_state, items>>

InitReadonly ==
    /\ query = <<>>
    /\ cursor_position = 0
    /\ results = <<>>
    /\ headers = <<>>
    /\ error = NoError
    /\ executor \in Backends
    /\ focus = "Query"
    /\ table_state = <<>>
    /\ horizontal_scroll = 0
    /\ pc = "call"
    /\ caller = "direct"
    /\ arg_query \in ReadonlyInputs
    /\ queries = <<>>
    /\ idx = 0
    /\ all_headers = <<>>
    /\ all_rows = <<>>
    /\ result = NoResult
    /\ sent = <<>>
    /\ replied = <<>>
    /\ committed = <<>>
    /\ raw_value = NoCell
    /\ cell_text = ""
    /\ tried = <<>>
    /\ state = "QueryPage"
    /\ error_message = NoError
    /\ connection = DbTypeOf(executor)
    /\ tables = <<>>
    /\ open_call = NoOpenCall
    /\ live = 1
    /\ attempts = 0
    /\ opened = 1
    /\ resubmission = FALSE
    /\ max_results = 0
    /\ explorer_state = <<0>>
    /\ activation = NoActivation
    /\ history = <<>>
    /\ history_available = FALSE
    /\ list_state = <<0>>
    /\ readonly = <<>>
    /\ items = <<>>

NextReadonly ==
    \/ IsReadonlyQuery
    \/ DirectExecute
    \/ ReplyRows
    \/ ReplyCount
    \/ ReplyError

SpecReadonly == InitReadonly /\ [][NextReadonly]_vars

----------------------------------------------------------------------------
(* Properties *)

Last(sq) == sq[Len(sq)]

\* the backend has just answered the awaited statement with an error
ErrorReplied ==
    /\ replied' # replied
    /\ replied' # <<>>
    /\ Last(replied').kind = "error"

\* the grid statement k produced on its own, from what the backend answered
StmtGrid(k) ==
    IF replied[k].kind = "count"
    THEN Grid(<<"Result">>, << <<ToString(replied[k].n) \o " row(s) affected">> >>)
    ELSE IF replied[k].raw = <<>>
    THEN Grid(<<>>, <<>>)
    ELSE Grid([j \in 1..Len(replied[k].raw[1]) |-> replied[k].raw[1][j].name],
              [r \in 1..Len(replied[k].raw) |->
                  [j \in 1..Len(replied[k].raw[r]) |->
                      value_to_string(executor, replied[k].raw[r][j])]])

\* execute has returned a grid built from the answers in replied
Returned == pc = "idle" /\ result.tag = "Ok"

IsSeparator(row) == Len(row) >= 1 /\ \A j \in 1..Len(row) : row[j] = "---"

\* C1: in every returned grid that has rows, each row has as many cells as
\* the grid has headers
C1_RowsMatchHeaders ==
    (Returned /\ result.rows # <<>>) =>
        \A r \in 1..Len(result.rows) : Len(result.rows[r]) = Len(result.headers)

\* C2: when the backend fails a statement, execute returns that error at
\* once: nothing further is sent, the returned value carries no headers and
\* no rows, and the page holds the error text and an empty grid
C2_FailFast ==
    [][ErrorReplied =>
          /\ pc' = "idle"
          /\ result' = [tag |-> "Err", headers |-> <<>>, rows |-> <<>>,
                        msg |-> Last(replied').msg]
          /\ sent' = sent
          /\ Len(sent') = Len(replied')
          /\ (caller = "page" =>
                 /\ error' = "Query error: " \o Last(replied').msg
                 /\ headers' = <<>>
                 /\ results' = <<>>)]_vars

C2_Witness ==
    /\ pc = "idle"
    /\ caller = "page"
    /\ result.tag = "Err"
    /\ Len(queries) = 3
    /\ Len(replied) = 2
    /\ replied[1].kind = "rows"
    /\ replied[1].raw # <<>>
    /\ error = "Query error: syntax error"
    /\ results = <<>>

\* the Write statements among the first n statements of the submission
RECURSIVE WritesAmong(_)
WritesAmong(n) ==
    IF n = 0 THEN <<>>
    ELSE IF sent[n].mode = "execute"
         THEN Append(WritesAmong(n - 1), queries[n])
         ELSE WritesAmong(n - 1)

\* C3: after statement k failed, the backend holds exactly the effects of the
\* Write statements 1..k-1, in order: nothing was rolled back
C3_NoRollback ==
    (pc = "idle" /\ result.tag = "Err") =>
        committed = WritesAmong(Len(replied) - 1)

C3_Witness ==
    /\ pc = "idle"
    /\ result.tag = "Err"
    /\ Len(replied) = 3
    /\ Len(committed) = 2
    /\ sent[3].mode = "fetch_all"

\* C4: the statements are sent in list order, each at most once, and a
\* statement is sent only after every earlier one was answered without error
C4_InOrder ==
    /\ Len(sent) <= Len(queries)
    /\ \A k \in 1..Len(sent) : sent[k].stmt = queries[k]
    /\ Len(replied) <= Len(sent)
    /\ Len(sent) <= Len(replied) + 1
    /\ \A k \in 1..(Len(sent) - 1) : replied[k].kind # "error"

C4_Witness ==
    /\ pc = "await"
    /\ Len(queries) = 3
    /\ Len(sent) = 3
    /\ Len(replied) = 2
    /\ queries[1] # queries[2]

HasHeaders(k) == StmtGrid(k).headers # <<>>

\* C5: the returned headers are those of the first statement that has any;
\* they are empty only if no statement has headers
C5_FirstHeaders ==
    Returned =>
        IF \E k \in 1..Len(replied) : HasHeaders(k)
        THEN LET first == CHOOSE k \in 1..Len(replied) :
                              HasHeaders(k) /\ \A m \in 1..(k - 1) : ~HasHeaders(m)
             IN  result.headers = StmtGrid(first).headers
        ELSE result.headers = <<>>

C5_Witness ==
    /\ Returned
    /\ Len(replied) = 3
    /\ ~HasHeaders(1)
    /\ HasHeaders(2)
    /\ HasHeaders(3)
    /\ StmtGrid(2).headers # StmtGrid(3).headers
    /\ result.headers = StmtGrid(2).headers

\* C6: every separator row of a returned grid is made of "---" cells, as many
\* as the grid has headers (one when it has none)
C6_SeparatorWidth ==
    Returned =>
        \A r \in 1..Len(result.rows) :
            IsSeparator(result.rows[r]) =>
                Len(result.rows[r]) = MaxOf(Len(result.headers), 1)

\* C7: a Write affecting n rows followed by a Read returning R yields the
\* headers <<"Result">> and the rows: the count row, one separator row, R
C7_WriteThenRead ==
    (Returned /\ Len(replied) = 2
        /\ replied[1].kind = "count" /\ replied[2].kind = "rows") =>
        /\ result.headers = <<"Result">>
        /\ Len(result.rows) = 2 + Len(replied[2].raw)
        /\ result.rows[1] = <<ToString(replied[1].n) \o " row(s) affected">>
        /\ IsSeparator(result.rows[2])
        /\ \A r \in 1..Len(replied[2].raw) :
              result.rows[2 + r] = StmtGrid(2).rows[r]

C7_Witness ==
    /\ Returned
    /\ Len(replied) = 2
    /\ replied[1].kind = "count"
    /\ replied[1].n = 1
    /\ replied[2].kind = "rows"
    /\ Len(replied[2].raw) = 2
    /\ Len(replied[2].raw[1]) = 2

\* C8: a single Read returns its column names as headers and its rows in the
\* backend's order, with no separator; with zero rows both are empty
C8_SingleRead ==
    (Returned /\ Len(queries) = 1 /\ Len(replied) = 1
        /\ replied[1].kind = "rows") =>
        LET raw == replied[1].raw
        IN  IF raw = <<>>
            THEN result.headers = <<>> /\ result.rows = <<>>
            ELSE /\ result.headers = [j \in 1..Len(raw[1]) |-> raw[1][j].name]
                 /\ Len(result.rows) = Len(raw)
                 /\ \A r \in 1..Len(raw) :
                       /\ Len(result.rows[r]) = Len(raw[r])
                       /\ \A j \in 1..Len(raw[r]) :
                             result.rows[r][j] = value_to_string(executor, raw[r][j])

C8_Witness ==
    /\ Returned
    /\ Len(queries) = 1
    /\ Len(replied) = 1
    /\ replied[1].kind = "rows"
    /\ Len(replied[1].raw) = 2
    /\ result.rows[1] # result.rows[2]

\* execute has split its argument
SplitDone == pc # "call"

SemiPositions(t) == {k \in 1..Len(t) : t[k] = ";"}

\* the positions that bound a piece of t: before its start, each ';', past its end
Bounds(t) == {0, Len(t) + 1} \cup SemiPositions(t)

NextBound(t, b) == CHOOSE c \in Bounds(t) : c > b /\ \A d \in Bounds(t) : d > b => c <= d

\* the non-whitespace positions of the piece that starts after bound b
Inked(t, b) == {k \in (b + 1)..(NextBound(t, b) - 1) : ~IsWhitespace(t[k])}

KeptBounds(t) == {b \in Bounds(t) \ {Len(t) + 1} : Inked(t, b) # {}}

MinOf(S) == CHOOSE x \in S : \A y \in S : x <= y

MaxIn(S) == CHOOSE x \in S : \A y \in S : x >= y

\* the pieces of t between ';' characters, trimmed, the empty ones dropped
ExpectedStatements(t) ==
    [i \in 1..Cardinality(KeptBounds(t)) |->
        LET b == CHOOSE c \in KeptBounds(t) :
                     Cardinality({d \in KeptBounds(t) : d < c}) = i - 1
        IN  SubSeq(t, MinOf(Inked(t, b)), MaxIn(Inked(t, b)))]

\* C9: the statement list is the pieces of the text between ';' characters,
\* in order, trimmed, without the empty ones: no statement is empty, begins
\* or ends with whitespace or holds a ';', and a text of whitespace and ';'
\* alone gives the empty list
C9_Split ==
    SplitDone =>
        /\ queries = ExpectedStatements(arg_query)
        /\ \A k \in 1..Len(queries) :
              /\ queries[k] # <<>>
              /\ ~IsWhitespace(queries[k][1])
              /\ ~IsWhitespace(Last(queries[k]))
              /\ \A j \in 1..Len(queries[k]) : queries[k][j] # ";"
        /\ (\A j \in 1..Len(arg_query) :
                arg_query[j] = ";" \/ IsWhitespace(arg_query[j])) => queries = <<>>

C9_Witness ==
    /\ SplitDone
    /\ arg_query = <<" ", "a", ";", "a">>
    /\ queries = << <<"a">>, <<"a">> >>

ReadKeywords == {kwSelect, kwShow, kwDescribe, kwExplain, kwWith, kwValues}

HasReadPrefix(q) ==
    \E kw \in ReadKeywords :
        /\ Len(q) >= Len(kw)
        /\ \A j \in 1..Len(kw) : ToLowerChar(q[j]) = kw[j]

\* the leading whitespace-delimited word of q, lowercased
FirstWord(q) ==
    LET stops == {k \in 1..Len(q) : IsWhitespace(q[k])}
        n == IF stops = {} THEN Len(q) ELSE MinOf(stops) - 1
    IN  [j \in 1..n |-> ToLowerChar(q[j])]

\* C10 as claimed: a statement is run as a Read exactly when its leading
\* whitespace-delimited word, whatever its case, is one of the six keywords
C10_ReadIffKeywordWord ==
    \A k \in 1..Len(sent) :
        (sent[k].mode = "fetch_all") <=> (FirstWord(sent[k].stmt) \in ReadKeywords)

\* C10 as amended: on every backend a statement is run as a Read exactly when
\* its text, lowercased, begins with one of the six keywords; every other
\* statement is run through execute and answered with an affected-row count
C10_ReadIffKeywordPrefix ==
    \A k \in 1..Len(sent) :
        /\ sent[k].mode \in {"fetch_all", "execute"}
        /\ (sent[k].mode = "fetch_all") <=> HasReadPrefix(sent[k].stmt)
        /\ (k <= Len(replied) /\ replied[k].kind = "count") =>
              ~HasReadPrefix(sent[k].stmt)
        /\ (k <= Len(replied) /\ replied[k].kind = "rows") =>
              HasReadPrefix(sent[k].stmt)

C10_Witness ==
    /\ Len(sent) = 1
    /\ Len(replied) = 1
    /\ executor = "Sqlite"
    /\ sent[1].stmt = <<"W","I","T","H","x">>
    /\ replied[1].kind = "rows"

\* the text holds nothing but ';' and whitespace
OnlySeparators(t) == \A j \in 1..Len(t) : t[j] = ";" \/ IsWhitespace(t[j])

\* C11: when the text execute is called with splits to no statement, execute
\* returns Ok with an empty grid (no headers, no rows) and nothing has been
\* handed to the backend
C11_EmptyIsOk ==
    (SplitDone /\ (queries = <<>> \/ OnlySeparators(arg_query))) =>
        /\ pc = "idle"
        /\ result = [tag |-> "Ok", headers |-> <<>>, rows |-> <<>>, msg |-> ""]
        /\ sent = <<>>
        /\ replied = <<>>
        /\ committed = <<>>

C11_Witness ==
    /\ SplitDone
    /\ arg_query = <<";", " ", ";">>
    /\ queries = <<>>
    /\ result.tag = "Ok"

\* the text is empty or whitespace only
Blank(t) == \A j \in 1..Len(t) : IsWhitespace(t[j])

\* C12 as claimed: on a connected page, every submission of a text that
\* yields no statement (blank, or only ';' and whitespace) is reported as
\* "Query is empty" and execute is not invoked
C12_EmptyQueryWhenNoStatement ==
    [][(pc = "idle" /\ executor # "None" /\ OnlySeparators(query)) =>
          /\ error' = "Query is empty"
          /\ UNCHANGED execVars]_vars

\* C12 as amended: a submission is reported as "Query is empty", without
\* execute being invoked, exactly when the text is blank; a text of ';' and
\* whitespace that holds a ';' passes the pre-check, and on a connected page
\* execute is invoked on it, sends nothing and returns the empty grid, and
\* the page shows no error
C12_EmptyQueryIffBlank ==
    [][pc = "idle" =>
          /\ (error' = "Query is empty") <=> Blank(query)
          /\ Blank(query) => UNCHANGED execVars
          /\ (~Blank(query) /\ executor # "None") =>
                /\ error' = NoError
                /\ arg_query' = query
                /\ caller' = "page"
          /\ (~Blank(query) /\ OnlySeparators(query) /\ executor # "None") =>
                /\ pc' = "idle"
                /\ result' = [tag |-> "Ok", headers |-> <<>>, rows |-> <<>>,
                              msg |-> ""]
                /\ sent' = <<>>
                /\ headers' = <<>>
                /\ results' = <<>>]_vars

C12_Witness ==
    /\ pc = "idle"
    /\ executor # "None"
    /\ query = <<" ">>
    /\ error = "Query is empty"
    /\ result.tag = "None"
    /\ sent = <<>>

\* the conversion of raw_value has returned
Converted == pc = "idle" /\ raw_value # NoCell

\* C13: on every backend and for every declared type, a cell that is SQL
\* NULL converts to the text NULL and no decode of it is attempted
C13_NullFirst ==
    (Converted /\ raw_value.null) => (cell_text = "NULL" /\ tried = <<>>)

C13_Witness ==
    /\ Converted
    /\ raw_value.null
    /\ executor = "MySql"
    /\ raw_value.ty = "BIGINT"
    /\ cell_text = "NULL"

HexDigitsLower == <<"0","1","2","3","4","5","6","7","8","9","a","b","c","d","e","f">>

HexDigitsUpper == <<"0","1","2","3","4","5","6","7","8","9","A","B","C","D","E","F">>

HexByte(digits, b) == digits[(b \div 16) + 1] \o digits[(b % 16) + 1]

\* two hexadecimal digits per byte
RECURSIVE HexText(_, _)
HexText(digits, p) ==
    IF p = <<>> THEN "" ELSE HexByte(digits, Head(p)) \o HexText(digits, Tail(p))

\* C14: a non-null binary payload of n bytes converts to its hexadecimal
\* text of 2n characters (in either letter case) when n <= 32, and to the
\* tag <BINARY n bytes> when n > 32
C14_BinaryHexOrTag ==
    (Converted /\ ~raw_value.null /\ raw_value.ty \in BinaryTypes(executor)) =>
        LET n == Len(raw_value.payload)
        IN  IF n <= 32
            THEN cell_text \in {HexText(HexDigitsLower, raw_value.payload),
                                HexText(HexDigitsUpper, raw_value.payload)}
            ELSE cell_text = "<BINARY " \o ToString(n) \o " bytes>"

\* the types the backend's conversion has an arm for
ConversionTable(pool) ==
    IF pool = "Postgres" THEN PgErrTypes \cup PgTextTypes
    ELSE IF pool = "MySql" THEN MySqlErrTypes \cup MySqlStringTypes
    ELSE SqliteErrTypes \cup {"TEXT", "DATETIME"}

UnknownTypeConverted ==
    /\ Converted
    /\ ~raw_value.null
    /\ raw_value.ty \notin ConversionTable(executor)

TypeTag(ty) == "<" \o ty \o ">"

\* C15 as claimed: a non-null cell whose type has no arm converts to its
\* decode as text when that decode succeeds, and to the tag <T> otherwise
C15_TextOrTag ==
    UnknownTypeConverted =>
        cell_text = IF raw_value.str.ok THEN raw_value.str.v
                    ELSE TypeTag(raw_value.ty)

\* C15 as amended: such a cell converts to its decode as text when that
\* succeeds; otherwise, on MySQL, to the lossy UTF-8 reading of its bytes
\* when the decode to bytes succeeds; otherwise to the tag <T>.  PostgreSQL
\* and SQLite make the one decode, MySQL makes the second only after the
\* first failed
C15_TextOrBytesOrTag ==
    UnknownTypeConverted =>
        /\ raw_value.str.ok => (cell_text = raw_value.str.v /\ tried = <<"String">>)
        /\ (~raw_value.str.ok /\ executor # "MySql") =>
              (cell_text = TypeTag(raw_value.ty) /\ tried = <<"String">>)
        /\ (~raw_value.str.ok /\ executor = "MySql") =>
              /\ tried = <<"String", "Vec<u8>">>
              /\ raw_value.bytes.ok =>
                    cell_text = (IF raw_value.ty \in BinaryTypes(executor)
                                 THEN Utf8Lossy(raw_value.payload)
                                 ELSE raw_value.bytes.v)
              /\ ~raw_value.bytes.ok => cell_text = TypeTag(raw_value.ty)

C15_Witness ==
    /\ UnknownTypeConverted
    /\ executor = "MySql"
    /\ raw_value.ty = "VARBINARY"
    /\ raw_value.payload = <<255>>
    /\ raw_value.bytes.ok
    /\ cell_text = ReplacementCharacter

SupportedDbTypes == {"postgres", "mysql", "mariadb", "sqlite"}

\* QueryExecutor::new was last called for a db_type outside the supported set
UnsupportedOpen == open_call.db_type # "" /\ open_call.db_type \notin SupportedDbTypes

\* C16: an open for a backend kind outside the supported set fails at once
\* with the unsupported-type error: it is never left pending, no connect is
\* made to the driver, no time passes in it, and the page holds no session
C16_UnsupportedFailsAtOnce ==
    UnsupportedOpen =>
        /\ open_call.outcome = "UnsupportedBackend"
        /\ open_call.msg = "Unsupported database type"
        /\ open_call.dialed = 0
        /\ open_call.elapsed = 0
        /\ pc # "connecting"
        /\ executor = "None"
        /\ live = 0

C16_Witness ==
    /\ open_call.db_type = "oracle"
    /\ open_call.outcome = "UnsupportedBackend"
    /\ state = "ConnectionList"
    /\ error_message = "Connection failed: Unsupported database type"
    /\ executor = "None"

\* what holds of the last open when it was for a supported backend
SupportedOpenSettled ==
    open_call.db_type \in SupportedDbTypes =>
        /\ open_call.dialed = 1
        /\ open_call.outcome \in {"pending", "Session", "ConnectFailure", "Timeout"}
        /\ (open_call.outcome = "pending") <=> (pc = "connecting")
        /\ open_call.elapsed < ConnectTimeout
        /\ open_call.outcome = "Timeout" => open_call.msg = ElapsedMsg
        /\ open_call.outcome = "ConnectFailure" => open_call.msg \in DriverErrMsgs

\* C17: every open on a supported backend connects to the driver once, is
\* pending only while the bound has not elapsed, and ends with one outcome:
\* a session, the driver's error, or Timeout; it ends with Timeout when the
\* last second of the bound passes with the connect still pending, and with
\* the driver's outcome when the driver completes before that; once it has
\* its outcome nothing changes it but a new connect
C17_OneOutcome ==
    [][/\ SupportedOpenSettled'
       /\ (open_call.outcome \notin {"pending", "None"} /\ open_call' # open_call) =>
             (attempts' = attempts + 1 /\ open_call'.elapsed = 0)
       /\ (open_call.outcome = "pending" /\ open_call'.outcome = "pending") =>
             open_call' = [open_call EXCEPT !.elapsed = open_call.elapsed + 1]
       /\ (open_call.outcome = "pending" /\ open_call'.outcome = "Timeout") =>
             open_call.elapsed + 1 = ConnectTimeout
       /\ (open_call.outcome = "pending"
              /\ open_call'.outcome \in {"Session", "ConnectFailure"}) =>
             open_call.elapsed < ConnectTimeout]_vars

C17_Witness ==
    /\ open_call.db_type = "mariadb"
    /\ open_call.outcome = "Timeout"
    /\ open_call.dialed = 1
    /\ pc = "idle"
    /\ executor = "None"
    /\ error_message = "Connection failed: deadline has elapsed"

\* C18: at most one pool is open and not closed, it is the one the page
\* holds or is closing, and none is open while a new one is being opened
C18_OneLiveSession ==
    /\ live <= 1
    /\ (live = 1) <=> (executor # "None" \/ pc = "closing")
    /\ pc = "connecting" => live = 0

C18_Witness ==
    /\ opened = 2
    /\ live = 1
    /\ executor # "None"
    /\ state = "QueryPage"

ConnectFailures == {"ConnectFailure", "Timeout", "UnsupportedBackend"}

\* this step ends a connect attempt with an error
ConnectFails == open_call' # open_call /\ open_call'.outcome \in ConnectFailures

\* C19: a connect attempt that fails changes nothing of the page (it holds
\* no session, and its query, results, headers, error, focus and tables are
\* as before the attempt), and leaves the application on the connection
\* list with the Connection failed message, ready for a further attempt
C19_FailedConnectLeavesPage ==
    [][/\ (pc' = "connecting" \/ ConnectFails) =>
             /\ executor = "None"
             /\ UNCHANGED <<pageVars, tables, connection, live>>
       /\ ConnectFails =>
             /\ live' = 0
             /\ state' = "ConnectionList"
             /\ pc' = "idle"
             /\ error_message' = "Connection failed: " \o open_call'.msg
       /\ (state = "ConnectionList" /\ pc = "idle" /\ attempts < MaxAttempts
              /\ open_call.outcome \in ConnectFailures) =>
             ENABLED SelectConnection]_vars

C19_Witness ==
    /\ state = "ConnectionList"
    /\ error_message = "Connection failed: connection refused"
    /\ open_call.outcome = "ConnectFailure"
    /\ executor = "None"
    /\ opened = 1
    /\ query # <<>>
    /\ results # <<>>
    /\ focus = "Results"

\* C20: when a statement submitted from the page fails, the page keeps its
\* session, open, and is ready for a new submission, its headers and results
\* are empty and its error is the query error; a submission made after that
\* over the same session clears the error, and when it succeeds it leaves no
\* error and installs its grid
C20_FailedStatementRecoverable ==
    [][/\ (ErrorReplied /\ caller = "page") =>
             /\ executor' = executor
             /\ executor' \in Backends
             /\ live' = 1
             /\ state' = "QueryPage"
             /\ pc' = "idle"
             /\ headers' = <<>>
             /\ results' = <<>>
             /\ error' = "Query error: " \o Last(replied').msg
       /\ (pc = "idle" /\ pc' = "await" /\ caller' = "page") =>
             /\ executor' = executor
             /\ error' = NoError
       /\ (pc = "await" /\ pc' = "idle" /\ caller = "page" /\ result'.tag = "Ok") =>
             /\ executor' = executor
             /\ error' = NoError
             /\ headers' = result'.headers
             /\ results' = result'.rows]_vars

C20_Witness ==
    /\ resubmission
    /\ state = "QueryPage"
    /\ pc = "idle"
    /\ caller = "page"
    /\ executor # "None"
    /\ live = 1
    /\ result.tag = "Ok"
    /\ error = NoError
    /\ results # <<>>
    /\ results = result.rows

----------------------------------------------------------------------------
\* the rows the table shows under the row cap
visibleRowCount ==
    IF max_results > 0
    THEN (IF max_results < Len(results) THEN max_results ELSE Len(results))
    ELSE Len(results)

\* C21: with a non-empty result grid, after any sequence of row-up, row-down,
\* page-up and page-down moves the row cursor is within
\* [0, visibleRowCount - 1]
C21_RowCursorInRange ==
    results # <<>> =>
        /\ table_state # <<>>
        /\ table_state[1] \in 0..(visibleRowCount - 1)

\* a paged move has carried the cursor to the last row the cap lets through
C21_Witness ==
    /\ max_results > 0
    /\ max_results < Len(results)
    /\ table_state = <<max_results - 1>>
    /\ table_state[1] >= PageStep

\* C22: jump-to-top sets the row cursor to 0 and jump-to-bottom sets it to
\* visibleRowCount - 1, whatever the row cap
C22_JumpTopBottom ==
    [][/\ (KeyChar("t") /\ focus = "Results") => table_state' = <<0>>
       /\ (KeyChar("b") /\ focus = "Results" /\ results # <<>>) =>
             table_state' = <<visibleRowCount - 1>>]_vars

OffsetInRange ==
    IF headers = <<>>
    THEN horizontal_scroll = 0
    ELSE horizontal_scroll \in 0..(Len(headers) - 1)

\* C23: after any sequence of column-left moves, column-right moves and
\* executions the horizontal offset is within [0, headerCount - 1] (0 when
\* the grid has no headers), and a move changes it by at most one column
C23_OffsetInRange ==
    [][/\ OffsetInRange'
       /\ headers' = headers =>
             horizontal_scroll' \in {horizontal_scroll - 1, horizontal_scroll,
                                     horizontal_scroll + 1}]_vars

\* column-right has reached the last of several columns
C23_Witness ==
    /\ Len(headers) >= 2
    /\ horizontal_scroll = Len(headers) - 1
    /\ focus = "Results"

\* C24: no transition sets the focus to Results while the page holds no
\* result rows
C24_ResultsNeedsGrid ==
    [][(focus # "Results" /\ focus' = "Results") => results' # <<>>]_vars

\* C25: from every focus the key "1" sets the focus to Query and the key "2"
\* sets it to Explorer, and neither changes the buffer, the grid or the
\* selections
C25_DirectJump ==
    [][/\ KeyChar("1") =>
             /\ focus' = "Query"
             /\ UNCHANGED <<query, results, headers, table_state, explorer_state>>
       /\ KeyChar("2") =>
             /\ focus' = "Explorer"
             /\ UNCHANGED <<query, results, headers, table_state, explorer_state>>]_vars

\* C27: while the focus is not Query no key changes the buffer or the text
\* cursor (set_query is not a key of the page), and while the focus is not
\* Results nothing but an execution changes the row cursor or the
\* horizontal offset
C27_KeysActOnFocusedPane ==
    [][/\ (focus # "Query" /\ ~KeySetQuery) =>
             UNCHANGED <<query, cursor_position>>
       /\ (focus # "Results" /\ pc = "idle" /\ ~ExecuteQuery) =>
             UNCHANGED <<table_state, horizontal_scroll>>]_vars

\* the grid was browsed while the buffer and its cursor stayed as they were
C27_Witness ==
    /\ focus = "Results"
    /\ query = kwWith
    /\ cursor_position = Len(query)
    /\ table_state # <<>>
    /\ table_state[1] > 0
    /\ horizontal_scroll > 0

CursorInRange == cursor_position \in 0..Len(query)

\* t with the character at 1-based position k left out
Without(t, k) == [i \in 1..(Len(t) - 1) |-> IF i < k THEN t[i] ELSE t[i + 1]]

\* C26: after any sequence of buffer operations (typing, newline, Backspace,
\* Delete, left, right, page-start, page-end, clear, set_query, connect) the
\* text cursor is within [0, L]; left and right move it by one, page-start
\* and page-end set it to 0 and L, an insertion puts its character at the
\* cursor's index and a deletion removes the character before (Backspace) or
\* at (Delete) that index
C26_TextCursor ==
    [][/\ CursorInRange'
       /\ (KeyLeft /\ focus = "Query" /\ cursor_position > 0) =>
             cursor_position' = cursor_position - 1
       /\ (KeyRight /\ focus = "Query" /\ cursor_position < Len(query)) =>
             cursor_position' = cursor_position + 1
       /\ (KeyPageUp /\ focus = "Query") => cursor_position' = 0
       /\ (KeyPageDown /\ focus = "Query") => cursor_position' = Len(query)
       /\ ((EditChar \/ KeyEnter) /\ focus = "Query") =>
             /\ Len(query') = Len(query) + 1
             /\ Without(query', cursor_position + 1) = query
             /\ cursor_position' = cursor_position + 1
       /\ (KeyBackspace /\ focus = "Query" /\ cursor_position > 0) =>
             /\ query' = Without(query, cursor_position)
             /\ cursor_position' = cursor_position - 1
       /\ (KeyDelete /\ focus = "Query" /\ cursor_position < Len(query)) =>
             /\ query' = Without(query, cursor_position + 1)
             /\ cursor_position' = cursor_position]_vars

\* after a reconnect had emptied the buffer, a character was typed before
\* the one already there
C26_Witness ==
    /\ attempts > 0
    /\ open_call.outcome = "Session"
    /\ state = "QueryPage"
    /\ query = <<"a", "\n">>
    /\ cursor_position = 1

\* the rows of the flattened tree: one per table and one per column of an
\* expanded table
RECURSIVE FlatCount(_)
FlatCount(ts) ==
    IF ts = <<>> THEN 0
    ELSE 1 + (IF Head(ts).expanded /\ Head(ts).fields # <<>>
              THEN Len(Head(ts).fields[1]) ELSE 0)
           + FlatCount(Tail(ts))

\* C28: whenever the schema tree is non-empty the explorer selection is
\* within [0, flattenedCount - 1], after any selection moves, expansions,
\* collapses, disconnects and reconnects
C28_SelectionInRange ==
    (pc = "idle" /\ tables # <<>>) =>
        /\ explorer_state # <<>>
        /\ explorer_state[1] \in 0..(FlatCount(tables) - 1)

\* the table that owns flat row s of the tree ts: its own row or one of
\* its column rows (0 if s is past the last row)
RECURSIVE OwnerFrom(_, _, _, _)
OwnerFrom(ts, i, start, s) ==
    IF i > Len(ts) THEN 0
    ELSE LET size == FlatCount(<<ts[i]>>)
         IN  IF s < start + size THEN i ELSE OwnerFrom(ts, i + 1, start + size, s)

\* C29: for every selection index in [0, flattenedCount - 1] an activation
\* toggles the expansion flag of the table owning that flat row, be it the
\* table's own row or one of its column rows, and of no other table
C29_ActivationTogglesOwner ==
    (/\ pc = "idle"
     /\ activation.selected # <<>>
     /\ activation.selected[1] < FlatCount(activation.tables)) =>
        LET T == activation.tables
            o == OwnerFrom(T, 1, 0, activation.selected[1])
        IN  /\ Len(tables) = Len(T)
            /\ \A k \in 1..Len(T) :
                  tables[k].expanded =
                     (IF k = o THEN ~T[k].expanded ELSE T[k].expanded)

\* C30: once a table's columns are loaded, collapsing and expanding it keeps
\* the same column list and sends no statement to the backend
C30_LoadedColumnsKept ==
    [][\A k \in 1..Len(tables) :
          tables[k].fields # <<>> =>
             /\ tables'[k].fields = tables[k].fields
             /\ tables'[k].expanded # tables[k].expanded =>
                   UNCHANGED <<pc, caller, arg_query, sent, replied, result>>]_vars

\* a table whose columns were loaded has been collapsed and is expanded again
C30_Witness ==
    /\ pc = "idle"
    /\ \E k \in 1..Len(tables) :
          /\ Len(activation.tables) = Len(tables)
          /\ activation.tables[k].fields # <<>>
          /\ Len(activation.tables[k].fields[1]) > 0
          /\ ~activation.tables[k].expanded
          /\ tables[k].expanded
          /\ tables[k].fields = activation.tables[k].fields

\* the column introspection that toggle_table_expansion awaits returns
ColumnsReturn(tag) ==
    /\ pc = "await"
    /\ caller = "columns"
    /\ pc' = "idle"
    /\ result'.tag = tag

\* C31: when a table's column introspection fails, the table ends collapsed
\* with no columns, no error is shown on the page and every other table is
\* unchanged
C31_FailedIntrospectionCollapsed ==
    [][ColumnsReturn("Err") =>
          /\ ~tables'[found_index].expanded
          /\ tables'[found_index].fields = <<>>
          /\ error' = NoError
          /\ error_message' = NoError
          /\ Len(tables') = Len(tables)
          /\ \A k \in 1..Len(tables) : k # found_index => tables'[k] = tables[k]]_vars

\* the position of the column's name in a row of the introspection result of
\* each backend
NameOrdinal(db_type) == IF db_type = "sqlite" THEN 1 ELSE 0

\* C32: after a successful first expansion the table's column list holds the
\* names the introspection rows report, in their order (ordinal 0; ordinal 1
\* for sqlite), and the table is expanded
C32_ColumnsAsReported ==
    [][ColumnsReturn("Ok") =>
          LET reply == Last(replied')
              ord == NameOrdinal(connection)
              reported == ReadResult(executor, reply.raw).rows
              t == tables'[found_index]
          IN  /\ reply.kind = "rows"
              /\ t.expanded
              /\ t.fields # <<>>
              /\ Len(t.fields[1]) = Len(reported)
              /\ \A k \in 1..Len(reported) :
                    /\ ord < Len(reported[k])
                    /\ t.fields[1][k] = reported[k][ord + 1]]_vars

\* the database operations that were started and have not completed: the
\* statements handed to the pool and not answered, the open that is pending,
\* the pools taken from the page and not closed yet
OperationsInFlight ==
    (Len(sent) - Len(replied))
      + (IF open_call.outcome = "pending" THEN 1 ELSE 0)
      + (live - (IF executor # "None" THEN 1 ELSE 0))

\* C33: at most one database operation (open, statement, table listing,
\* close) is in flight at any time; while one is in flight no key is
\* processed (the buffer, the cursor and the focus change only when the open
\* completes) and no other call is submitted (no connect is started, and a
\* call that awaits a statement keeps its text and only extends what it sent)
C33_OneOperationInFlight ==
    [][/\ OperationsInFlight' <= 1
       /\ OperationsInFlight > 0 =>
             /\ attempts' = attempts
             /\ \/ <<query, cursor_position, focus>>' = <<query, cursor_position, focus>>
                \/ open_call.outcome = "pending" /\ open_call'.outcome = "Session"
             /\ Len(sent) > Len(replied) =>
                   /\ arg_query' = arg_query
                   /\ caller' = caller
                   /\ Len(sent') >= Len(sent)
                   /\ SubSeq(sent', 1, Len(sent)) = sent]_vars

\* a statement submitted from the page is in flight on the session that a
\* second connect opened
C33_Witness ==
    /\ OperationsInFlight = 1
    /\ caller = "page"
    /\ Len(sent) = 1
    /\ replied = <<>>
    /\ opened = 2

\* both functions have classified the one statement of arg_query
BothClassified == readonly # <<>> /\ Len(queries) = 1 /\ Len(sent) >= 1

\* C34: is_readonly_query is true exactly for the statements execute runs as
\* Read (fetch_all) and false for the ones it runs as Write (execute),
\* whatever the leading white space and the letter case
C34_ReadonlyIffRead ==
    BothClassified => (readonly[1] <=> sent[1].mode = "fetch_all")

\* load_tables' statement has been answered and connect returns
TablesReturn == pc = "await" /\ caller = "tables" /\ pc' = "idle"

\* C35: when the table listing fails during connect, connect still succeeds:
\* the session is open, the query page is shown with an empty tree and no
\* error; when it succeeds the tree holds one table per returned row, in
\* order, with columns absent and not expanded
C35_ListingDegradesSilently ==
    [][TablesReturn =>
          /\ state' = "QueryPage"
          /\ executor' \in Backends
          /\ live' = 1
          /\ error' = NoError
          /\ error_message' = NoError
          /\ IF result'.tag = "Err"
             THEN tables' = <<>>
             ELSE LET reply == Last(replied')
                      reported == ReadResult(executor, reply.raw).rows
                  IN  /\ reply.kind = "rows"
                      /\ Len(tables') = Len(reported)
                      /\ \A k \in 1..Len(reported) :
                            tables'[k] = [name |-> reported[k][1],
                                          fields |-> <<>>,
                                          expanded |-> FALSE]]_vars

\* connect has returned after a failed table listing: the page is shown
C35_Witness ==
    /\ pc = "idle"
    /\ caller = "tables"
    /\ result.tag = "Err"
    /\ Last(replied).kind = "error"
    /\ state = "QueryPage"
    /\ executor \in Backends

\* the 1-based positions of the table items (the ones not drawn gray) of a
\* drawn list, in order
TablePositions(its) == {p \in 1..Len(its) : ~its[p].gray}

\* the position of the i-th table item
TablePosition(its, i) ==
    CHOOSE p \in TablePositions(its) :
        Cardinality({q \in TablePositions(its) : q <= p}) = i

\* C36: the flattened count that clamps the selection, the walk that resolves
\* an activation and the drawn list agree: the list has as many items as the
\* count, each table contributes 1 item if collapsed or without loaded
\* columns and 1 + columnCount items if expanded, and the walk resolves the
\* flat index of each table's item to that table
C36_FlatteningsAgree ==
    [][RenderExplorer =>
          /\ Len(items') = total_items
          /\ Cardinality(TablePositions(items')) = Len(tables)
          /\ \A i \in 1..Len(tables) :
                LET p == TablePosition(items', i)
                    next == IF i < Len(tables) THEN TablePosition(items', i + 1)
                            ELSE Len(items') + 1
                IN  /\ FoundIndexFrom(tables, 1, 0, p - 1) = i
                    /\ next - p = 1 + (IF tables[i].expanded
                                       THEN FieldsLen(tables[i]) ELSE 0)]_vars

\* the drawn list shows an expanded table with its columns, followed by
\* another table
C36_Witness ==
    /\ Len(tables) = 2
    /\ items = ItemsFrom(tables, 1)
    /\ Len(items) >= 3
    /\ items[2].gray
    /\ ~items[Len(items)].gray

\* C37: in a returned grid each separator row stands between rows of two
\* statements: the grid neither begins nor ends with a separator row and has
\* no two adjacent separator rows, also when statements return no rows
C37_SeparatorsBetweenRows ==
    (Returned /\ result.rows # <<>>) =>
        /\ ~IsSeparator(result.rows[1])
        /\ ~IsSeparator(Last(result.rows))
        /\ \A r \in 1..(Len(result.rows) - 1) :
              ~(IsSeparator(result.rows[r]) /\ IsSeparator(result.rows[r + 1]))

NoConsecutiveDuplicates(h) == \A k \in 1..(Len(h) - 1) : h[k] # h[k + 1]

\* C39: after any sequence of save_query, delete_query and clear_history the
\* stored history holds no two consecutive identical queries; save_query
\* leaves the history unchanged when the query is its last entry and appends
\* it at the end otherwise
C39_NoConsecutiveDuplicates ==
    [][/\ NoConsecutiveDuplicates(history')
       /\ \A q \in HistoryTexts :
             HistorySave(q) =>
                history' = IF history # <<>> /\ Last(history) = q THEN history
                           ELSE Append(history, q)]_vars

\* C40: deleting the selected entry removes exactly the entry at the selected
\* position (display index s is stored index len - 1 - s) and leaves the
\* other entries and their order unchanged
C40_DeleteSelectedPosition ==
    [][(HistoryDeleteSelected /\ list_state[1] < Len(history)) =>
          history' = Without(history, Len(history) - list_state[1])]_vars

====
